---- MODULE Spec2Model ----
(***************************************************************************)
(* A model of genai-bench's measurement and streaming pipeline:            *)
(*   - StreamingDashboard (streaming/streaming_dashboard.py): the facade,  *)
(*     its history buffers and its event queue;                            *)
(*   - StreamingServer (streaming/streaming_server.py): the WebSocket      *)
(*     handlers of the FastAPI endpoint and of the websockets fallback;    *)
(*   - the SSE parser (user/async_openai_user.py) and the plain-text       *)
(*     parser (user/async_baseten_user.py);                                *)
(*   - StreamedResponseHandler.add_chunk and send_request_async            *)
(*     (user/async_base_user.py), the chat tasks that call it, and the     *)
(*     streaming parser of user/hybrid_baseten_user.py.                    *)
(* The specifications share the definitions: Spec (dashboard and server),  *)
(* SpecLive (the FastAPI endpoint with the event loop's fairness),         *)
(* SpecMessages (the endpoint with clients that send texts),               *)
(* SpecParameters (clients that set and read the parameters), SpecFacade   *)
(* (the facade alone, on history lists that are empty or about to          *)
(* overflow), SpecThreads (the facade's thread against the server's),      *)
(* SpecParse (the stream parsers on parsed messages), SpecChunks           *)
(* (add_chunk on bytes), SpecRequest (send_request_async around the        *)
(* parsers), SpecChat (one chat task) and SpecHybrid (the hybrid parser    *)
(* on bytes).                                                              *)
(***************************************************************************)
EXTENDS Integers, Sequences, FiniteSets, TLC

VARIABLES
    \* ---- StreamingDashboard
    _running,            \* self._running
    ctx,                 \* what asyncio.get_event_loop() gives the facade's caller
    benchmark_status,    \* self.benchmark_status (the fields the model follows)
    metrics_history, logs_history, status_history, scatter_history,
    histogram_history,   \* the five history lists
    put_tasks,           \* tasks made by create_task(event_queue.put(e)), not yet run
    event_queue,         \* self.event_queue (asyncio.Queue, unbounded)
    next_id,             \* identity of the next data dict a facade call builds
    calls,               \* facade calls made so far
    connected_clients,   \* self.connected_clients
    \* ---- StreamingServer
    FASTAPI_AVAILABLE,   \* which server start() runs
    server_started,      \* start() was called
    websocket_connections, \* self.websocket_connections (fallback handler)
    pc,                  \* where each connection's handler is
    alive,               \* the peer of the connection is still there
    last_heartbeat,      \* the handler's local last_heartbeat
    wait_since,          \* when the handler began its current wait
    sent,                \* what each client was sent, with the time of the send
    replay,              \* the complete_history each client was sent
    \* ---- clock and bookkeeping
    now,                 \* time.time()
    ticks,               \* clock advances so far
    bus_log,             \* every event that entered event_queue, in order
    joined,              \* Len(bus_log) when the handler entered its loop
    client_messages,     \* the texts the endpoint received from each client
    \* ---- the two threads of streaming_benchmark
    facade_pc,           \* where the benchmark's thread is in update_metrics_panels
    reader_pc,           \* where the server's thread is in serving the history
    snapshot,            \* the list object get_complete_history returned
    linked               \* snapshot is still the object self.metrics_history names

dashVars == <<_running, ctx, benchmark_status, metrics_history, logs_history,
              status_history, scatter_history, histogram_history, put_tasks,
              event_queue, next_id, calls, bus_log>>
serverVars == <<connected_clients, FASTAPI_AVAILABLE, server_started,
                websocket_connections, pc, alive, last_heartbeat, wait_since,
                sent, replay, joined>>
clockVars == <<now, ticks>>
clientVars == <<client_messages>>
threadVars == <<facade_pc, reader_pc, snapshot, linked>>

\* One request's response body being parsed by a user (AsyncOpenAIUser's SSE
\* parser or AsyncBasetenUser's plain-text parser): the parser's locals, the
\* monotonic clock it reads, what it has returned, and the JSON frames it has
\* looked at.
VARIABLES parse_strategy, parse_pc, start_time, monotonic, chunks_read,
          num_prefill_tokens,
          generated_text, tokens_received, time_at_first_token, finish_reason,
          num_prompt_tokens, end_time, response, frames_seen,
          usage_completion_tokens, \* completion_tokens of the last usage seen
          received,                \* every message add_chunk has handed over
          http_status,             \* response.status in send_request_async
          collected,               \* the responses calculate_metrics was given
          wire,                    \* bytes of the body not yet received
          stream,                  \* the whole body the server sends
          buffer,                  \* StreamedResponseHandler.buffer
          emitted,                 \* the messages add_chunk has returned
          handler_pc               \* "open", or "raised" once decode failed

requestVars == <<http_status, collected>>
handlerVars == <<wire, stream, buffer, emitted, handler_pc>>

userVars == <<parse_strategy, parse_pc, start_time, monotonic, chunks_read,
              num_prefill_tokens,
              generated_text, tokens_received, time_at_first_token,
              finish_reason, num_prompt_tokens, end_time, response,
              frames_seen, usage_completion_tokens, received, requestVars,
              handlerVars>>

\* ---------------------------------------------------------------- bounds
NumClients == 2
MaxCalls == 2
MaxTicks == 1

\* ----------------------------------------------------- program constants
MetricsCap == 1000
LogsCap == 1000
StatusCap == 1000
ScatterCap == 1000
HistogramCap == 100
HeartbeatInterval == 30
WaitTimeout == 5
GetTimeout == 1

Clients == 1..NumClients
\* The clock is observed in steps longer than every timeout of the server.
TickStep == HeartbeatInterval + 1

\* (a slice that keeps the oldest n entries)
FirstN(s, n) == SubSeq(s, 1, n)

\* --------------------------------------------------------------- helpers
LastN(s, n) == SubSeq(s, Len(s) - n + 1, Len(s))

\* (an append that never trims)
HistoryAppendUntrimmed(h, entry, cap) == Append(h, entry)

\* list.append(entry) followed by "if len(h) > cap: h = h[-cap:]"
HistoryAppend(h, entry, cap) ==
    LET h2 == Append(h, entry)
    IN  IF Len(h2) > cap THEN LastN(h2, cap) ELSE h2

StreamEvent(event_type, data) ==
    [event_type |-> event_type, timestamp |-> now, data |-> data]

\* StreamingDashboard._queue_event on the pair (pending put tasks, queue)
_queue_event(bus, event_type, data) ==
    IF ~_running THEN bus
    ELSE CASE ctx = "task"   -> [bus EXCEPT !.tasks = Append(@, StreamEvent(event_type, data))]
           [] ctx = "nowait" -> [bus EXCEPT !.queue = Append(@, StreamEvent(event_type, data)),
                                            !.log = Append(@, StreamEvent(event_type, data))]
           [] OTHER          -> bus

Bus == [tasks |-> put_tasks, queue |-> event_queue, log |-> bus_log]

\* (a producer that waits until the handlers have emptied the queue)
ReturnsWhenDrained(queue) == queue = <<>>

\* loop.create_task(queue.put(event)) and queue.put_nowait(event) both return
\* to the caller at once, whatever the queue holds
ReturnsAtOnce(queue) == TRUE

SetBus(bus) ==
    /\ ReturnsAtOnce(event_queue)
    /\ put_tasks' = bus.tasks
    /\ event_queue' = bus.queue
    /\ bus_log' = bus.log

\* ------------------------------------------------ StreamingDashboard facade
\* The data dict a facade call builds; id numbers the dicts in the order the
\* facade hands them to its history list and to _queue_event.
Data(id) == [id |-> id, timestamp |-> now]

StatusValues == {"running", "completed"}

\* self.benchmark_status as __init__ builds it, with the two fields the
\* facade writes
InitialStatus == [status |-> "idle", progress_percentage |-> 0]

\* The progress a benchmark reports
ProgressValues == {50}

\* dashboard.start(): self._running = True, then the server serves
start ==
    /\ ~server_started
    /\ server_started' = TRUE
    /\ _running' = TRUE
    /\ UNCHANGED <<ctx, benchmark_status, metrics_history, logs_history,
                   status_history, scatter_history, histogram_history, put_tasks,
                   event_queue, next_id, calls, bus_log, connected_clients,
                   FASTAPI_AVAILABLE, websocket_connections, pc, alive,
                   last_heartbeat, wait_since, sent, replay, joined, now, ticks>>
    /\ UNCHANGED <<clientVars, threadVars, userVars>>

\* dashboard.stop(): self._running = False
stop ==
    /\ _running
    /\ _running' = FALSE
    /\ UNCHANGED <<ctx, benchmark_status, metrics_history, logs_history,
                   status_history, scatter_history, histogram_history, put_tasks,
                   event_queue, next_id, calls, bus_log, serverVars, clockVars>>
    /\ UNCHANGED <<clientVars, threadVars, userVars>>

update_benchmark_status(s) ==
    /\ calls < MaxCalls
    /\ benchmark_status' = [benchmark_status EXCEPT !.status = s]
    /\ LET status_data == [id |-> next_id, timestamp |-> now,
                           status |-> benchmark_status']
       IN  /\ status_history' = HistoryAppend(status_history, status_data, StatusCap)
           /\ SetBus(_queue_event(Bus, "status", status_data))
    /\ next_id' = next_id + 1
    /\ calls' = calls + 1
    /\ UNCHANGED <<_running, ctx, metrics_history, logs_history, scatter_history,
                   histogram_history, serverVars, clockVars>>
    /\ UNCHANGED <<clientVars, threadVars, userVars>>

\* StreamingDashboard.update_benchmark_progress_bars: the field is written and
\* a progress event queued; status_history is not touched
update_benchmark_progress_bars(progress_increment) ==
    /\ calls < MaxCalls
    /\ benchmark_status' =
           [benchmark_status EXCEPT !.progress_percentage = progress_increment]
    /\ SetBus(_queue_event(Bus, "progress", [progress |-> progress_increment]))
    /\ calls' = calls + 1
    /\ UNCHANGED <<_running, ctx, metrics_history, logs_history, status_history,
                   scatter_history, histogram_history, next_id, serverVars,
                   clockVars>>
    /\ UNCHANGED <<clientVars, threadVars, userVars>>

update_metrics_panels ==
    /\ calls < MaxCalls
    /\ metrics_history' = HistoryAppend(metrics_history, Data(next_id), MetricsCap)
    /\ SetBus(_queue_event(Bus, "metrics", Data(next_id)))
    /\ next_id' = next_id + 1
    /\ calls' = calls + 1
    /\ UNCHANGED <<_running, ctx, benchmark_status, logs_history, status_history,
                   scatter_history, histogram_history, serverVars, clockVars>>
    /\ UNCHANGED <<clientVars, threadVars, userVars>>

update_histogram_panel ==
    /\ calls < MaxCalls
    /\ histogram_history' = HistoryAppend(histogram_history, Data(next_id), HistogramCap)
    /\ SetBus(_queue_event(Bus, "histogram", Data(next_id)))
    /\ next_id' = next_id + 1
    /\ calls' = calls + 1
    /\ UNCHANGED <<_running, ctx, benchmark_status, metrics_history, logs_history,
                   status_history, scatter_history, serverVars, clockVars>>
    /\ UNCHANGED <<clientVars, threadVars, userVars>>

\* ui_scatter_plot_metrics is None, or a list of four floats
update_scatter_plot_panel(ui_scatter_plot_metrics) ==
    /\ calls < MaxCalls
    /\ IF ui_scatter_plot_metrics = "vec4"
       THEN /\ scatter_history' = HistoryAppend(scatter_history, Data(next_id), ScatterCap)
            /\ SetBus(_queue_event(Bus, "scatter", Data(next_id)))
            /\ next_id' = next_id + 1
       ELSE UNCHANGED <<scatter_history, put_tasks, event_queue, bus_log, next_id>>
    /\ calls' = calls + 1
    /\ UNCHANGED <<_running, ctx, benchmark_status, metrics_history, logs_history,
                   status_history, histogram_history, serverVars, clockVars>>
    /\ UNCHANGED <<clientVars, threadVars, userVars>>

add_log_message ==
    /\ calls < MaxCalls
    /\ logs_history' = HistoryAppend(logs_history, Data(next_id), LogsCap)
    /\ SetBus(_queue_event(Bus, "log", Data(next_id)))
    /\ next_id' = next_id + 1
    /\ calls' = calls + 1
    /\ UNCHANGED <<_running, ctx, benchmark_status, metrics_history, status_history,
                   scatter_history, histogram_history, serverVars, clockVars>>
    /\ UNCHANGED <<clientVars, threadVars, userVars>>

\* error_code is None (a success) or an HTTP status
\* aggregated_metrics as update_iteration_rps_vs_latency reads it: None, or
\* stats with the means of ttft, output_latency and e2e_latency, where 0 stands
\* for a statistic that is missing, None or zero
NoMetrics == [present |-> FALSE, ttft |-> 0, output_latency |-> 0, e2e_latency |-> 0]
AggregatedMetrics ==
    {NoMetrics}
    \cup [present : {TRUE}, ttft : {0, 3}, output_latency : {0, 5},
          e2e_latency : {0, 7}]
RunTimes == {0, 2}
TotalRequests == {0, 4}

\* (the end-to-end mean taken whenever there is one)
LatencyPreferringE2E(aggregated_metrics) ==
    IF ~aggregated_metrics.present THEN 0
    ELSE IF aggregated_metrics.e2e_latency # 0
    THEN aggregated_metrics.e2e_latency
    ELSE IF aggregated_metrics.ttft # 0 THEN aggregated_metrics.ttft
    ELSE aggregated_metrics.output_latency

\* "e2e_latency = 0", then the first of stats.ttft.mean,
\* stats.output_latency.mean, stats.e2e_latency.mean that is truthy
LatencyOf(aggregated_metrics) ==
    IF ~aggregated_metrics.present THEN 0
    ELSE IF aggregated_metrics.ttft # 0 THEN aggregated_metrics.ttft
    ELSE IF aggregated_metrics.output_latency # 0
    THEN aggregated_metrics.output_latency
    ELSE aggregated_metrics.e2e_latency

\* StreamingDashboard.update_rps_vs_latency_plot
update_rps_vs_latency_plot(rps, e2e_latency) ==
    /\ SetBus(_queue_event(Bus, "rps_vs_latency",
                            [id |-> next_id, timestamp |-> now, rps |-> rps,
                             e2e_latency |-> e2e_latency]))
    /\ next_id' = next_id + 1

update_iteration_rps_vs_latency(aggregated_metrics, run_time, total_requests) ==
    /\ calls < MaxCalls
    /\ IF run_time > 0 /\ total_requests > 0
          /\ LatencyOf(aggregated_metrics) > 0
       THEN update_rps_vs_latency_plot(total_requests \div run_time,
                                       LatencyOf(aggregated_metrics))
       ELSE UNCHANGED <<put_tasks, event_queue, bus_log, next_id>>
    /\ calls' = calls + 1
    /\ UNCHANGED <<_running, ctx, benchmark_status, metrics_history,
                   logs_history, status_history, scatter_history,
                   histogram_history, serverVars, clockVars>>
    /\ UNCHANGED <<clientVars, threadVars, userVars>>

\* (metrics streamed for failed requests too)
StreamsMetricsAlways(error_code) == TRUE

\* "if error_code is None:  # Only stream metrics for successful requests"
StreamsMetrics(error_code) == error_code = "None"

handle_single_request(error_code) ==
    /\ calls < MaxCalls
    /\ IF StreamsMetrics(error_code)
       THEN /\ metrics_history' = HistoryAppend(metrics_history, Data(next_id), MetricsCap)
            /\ histogram_history' =
                   HistoryAppend(histogram_history, Data(next_id + 1), HistogramCap)
            /\ SetBus(_queue_event(
                        _queue_event(
                          _queue_event(Bus, "metrics", Data(next_id)),
                          "histogram", Data(next_id + 1)),
                        "request_processed", Data(next_id + 2)))
            /\ next_id' = next_id + 3
       ELSE /\ SetBus(_queue_event(Bus, "request_processed", Data(next_id)))
            /\ next_id' = next_id + 1
            /\ UNCHANGED <<metrics_history, histogram_history>>
    /\ calls' = calls + 1
    /\ UNCHANGED <<_running, ctx, benchmark_status, logs_history, status_history,
                   scatter_history, serverVars, clockVars>>
    /\ UNCHANGED <<clientVars, threadVars, userVars>>

\* StreamingDashboard.reset_plot_metrics: the metrics_reset event, with {}
\* as its data, and nothing else
reset_plot_metrics ==
    /\ calls < MaxCalls
    /\ SetBus(_queue_event(Bus, "metrics_reset", "empty"))
    /\ calls' = calls + 1
    /\ UNCHANGED <<_running, ctx, benchmark_status, metrics_history,
                   logs_history, status_history, scatter_history,
                   histogram_history, next_id, serverVars, clockVars>>
    /\ UNCHANGED <<clientVars, threadVars, userVars>>

\* The event loop runs the oldest pending create_task(event_queue.put(event)).
RunPutTask ==
    /\ put_tasks # <<>>
    /\ put_tasks' = Tail(put_tasks)
    /\ event_queue' = Append(event_queue, Head(put_tasks))
    /\ bus_log' = Append(bus_log, Head(put_tasks))
    /\ UNCHANGED <<_running, ctx, benchmark_status, metrics_history, logs_history,
                   status_history, scatter_history, histogram_history, next_id,
                   calls, serverVars, clockVars>>
    /\ UNCHANGED <<clientVars, threadVars, userVars>>

Facade ==
    \/ \E a \in AggregatedMetrics, r \in RunTimes, t \in TotalRequests :
           update_iteration_rps_vs_latency(a, r, t)
    \/ \E s \in StatusValues : update_benchmark_status(s)
    \/ \E p \in ProgressValues : update_benchmark_progress_bars(p)
    \/ update_metrics_panels
    \/ update_histogram_panel
    \/ \E m \in {"None", "vec4"} : update_scatter_plot_panel(m)
    \/ add_log_message
    \/ \E e \in {"None", "500"} : handle_single_request(e)
    \/ reset_plot_metrics

\* --------------------------------------------------------- StreamingServer
EmptyHistory ==
    [metrics_history |-> <<>>, logs_history |-> <<>>, status_history |-> <<>>,
     scatter_history |-> <<>>, histogram_history |-> <<>>,
     current_status |-> InitialStatus]

\* StreamingDashboard.get_complete_history
get_complete_history ==
    [metrics_history |-> metrics_history, logs_history |-> logs_history,
     status_history |-> status_history, scatter_history |-> scatter_history,
     histogram_history |-> histogram_history,
     current_status |-> benchmark_status]

\* The JSON objects the handlers send.
StatusMessage == [event_type |-> "status", data |-> benchmark_status]
HistoryMessage == [event_type |-> "historical_data", data |-> "complete_history"]
EventMessage(event) ==
    [event_type |-> event.event_type, timestamp |-> event.timestamp,
     data |-> event.data]
HeartbeatMessage ==
    [event_type |-> "heartbeat", timestamp |-> now, data |-> "empty"]

Sent(log, message) == Append(log, [msg |-> message, at |-> now])

InHandler(c) == pc[c] \in {"status", "history", "loop"}

\* The peer goes away (a clean close or a broken connection).
client_disconnect(c) ==
    /\ InHandler(c)
    /\ alive[c]
    /\ alive' = [alive EXCEPT ![c] = FALSE]
    /\ UNCHANGED <<dashVars, connected_clients, FASTAPI_AVAILABLE, server_started,
                   websocket_connections, pc, last_heartbeat, wait_since, sent,
                   replay, joined, clockVars>>
    /\ UNCHANGED <<clientVars, threadVars, userVars>>

\* websocket_endpoint: accept, then connected_clients.add(client_id)
ws_accept(c) ==
    /\ FASTAPI_AVAILABLE /\ _running
    /\ pc[c] = "idle"
    /\ pc' = [pc EXCEPT ![c] = "status"]
    /\ alive' = [alive EXCEPT ![c] = TRUE]
    /\ connected_clients' = connected_clients \cup {c}
    /\ UNCHANGED <<dashVars, FASTAPI_AVAILABLE, server_started,
                   websocket_connections, last_heartbeat, wait_since, sent,
                   replay, joined, clockVars>>
    /\ UNCHANGED <<clientVars, threadVars, userVars>>

\* "Send initial status"; a send to a peer that is gone raises, and the
\* handler leaves through its finally clause.
ws_send_status(c) ==
    /\ FASTAPI_AVAILABLE
    /\ pc[c] = "status"
    /\ IF alive[c]
       THEN /\ sent' = [sent EXCEPT ![c] = Sent(@, StatusMessage)]
            /\ pc' = [pc EXCEPT ![c] = "history"]
            /\ UNCHANGED connected_clients
       ELSE /\ pc' = [pc EXCEPT ![c] = "closed"]
            /\ connected_clients' = connected_clients \ {c}
            /\ UNCHANGED sent
    /\ UNCHANGED <<dashVars, FASTAPI_AVAILABLE, server_started,
                   websocket_connections, alive, last_heartbeat, wait_since,
                   replay, joined, clockVars>>
    /\ UNCHANGED <<clientVars, threadVars, userVars>>

\* "Send complete historical data", then last_heartbeat = time.time()
ws_send_history(c) ==
    /\ FASTAPI_AVAILABLE
    /\ pc[c] = "history"
    /\ IF alive[c]
       THEN /\ sent' = [sent EXCEPT ![c] = Sent(@, HistoryMessage)]
            /\ replay' = [replay EXCEPT ![c] = get_complete_history]
            /\ pc' = [pc EXCEPT ![c] = "loop"]
            /\ last_heartbeat' = [last_heartbeat EXCEPT ![c] = now]
            /\ wait_since' = [wait_since EXCEPT ![c] = now]
            /\ joined' = [joined EXCEPT ![c] = Len(bus_log)]
            /\ UNCHANGED connected_clients
       ELSE /\ pc' = [pc EXCEPT ![c] = "closed"]
            /\ connected_clients' = connected_clients \ {c}
            /\ UNCHANGED <<sent, replay, last_heartbeat, wait_since, joined>>
    /\ UNCHANGED <<dashVars, FASTAPI_AVAILABLE, server_started,
                   websocket_connections, alive, clockVars>>
    /\ UNCHANGED <<clientVars, threadVars, userVars>>

\* (a heartbeat failure that is logged without leaving the loop)
ws_heartbeat_no_break(c, log) ==
    /\ sent' = [sent EXCEPT ![c] =
                   IF now - last_heartbeat[c] > HeartbeatInterval /\ alive[c]
                   THEN Sent(log, HeartbeatMessage) ELSE log]
    /\ last_heartbeat' = [last_heartbeat EXCEPT ![c] =
                   IF now - last_heartbeat[c] > HeartbeatInterval /\ alive[c]
                   THEN now ELSE @]
    /\ UNCHANGED <<pc, connected_clients>>

\* The end of one iteration of the endpoint's loop: "Send heartbeat only if
\* no events for a while". log is what the iteration has sent so far.
ws_heartbeat(c, log) ==
    IF now - last_heartbeat[c] > HeartbeatInterval
    THEN IF alive[c]
         THEN /\ sent' = [sent EXCEPT ![c] = Sent(log, HeartbeatMessage)]
              /\ last_heartbeat' = [last_heartbeat EXCEPT ![c] = now]
              /\ UNCHANGED <<pc, connected_clients>>
         ELSE \* "Heartbeat failed": break, then the finally clause
              /\ sent' = [sent EXCEPT ![c] = log]
              /\ pc' = [pc EXCEPT ![c] = "closed"]
              /\ connected_clients' = connected_clients \ {c}
              /\ UNCHANGED last_heartbeat
    ELSE /\ sent' = [sent EXCEPT ![c] = log]
         /\ UNCHANGED <<pc, connected_clients, last_heartbeat>>

\* (a get that takes the newest event)
QueueGetNewest(q) == [item |-> q[Len(q)], rest |-> SubSeq(q, 1, Len(q) - 1)]

\* asyncio.Queue.get: the oldest event leaves the queue
QueueGet(q) == [item |-> Head(q), rest |-> Tail(q)]

\* One iteration in which dashboard_task is done: the event is taken from the
\* queue and sent; a failing send is logged and the loop goes on.
ws_loop_event(c) ==
    /\ FASTAPI_AVAILABLE
    /\ pc[c] = "loop"
    /\ event_queue # <<>>
    /\ event_queue' = QueueGet(event_queue).rest
    /\ ws_heartbeat(c, IF alive[c]
                       THEN Sent(sent[c], EventMessage(QueueGet(event_queue).item))
                       ELSE sent[c])
    /\ wait_since' = [wait_since EXCEPT ![c] = now]
    /\ UNCHANGED <<_running, ctx, benchmark_status, metrics_history, logs_history,
                   status_history, scatter_history, histogram_history, put_tasks,
                   next_id, calls, bus_log, FASTAPI_AVAILABLE, server_started,
                   websocket_connections, alive, replay, joined, clockVars>>
    /\ UNCHANGED <<clientVars, threadVars, userVars>>

\* One iteration in which only client_task is done, with the exception
\* receive_text raises once the peer is gone; it is logged and the loop goes on.
ws_loop_recv_error(c) ==
    /\ FASTAPI_AVAILABLE
    /\ pc[c] = "loop"
    /\ ~alive[c]
    /\ event_queue = <<>>
    /\ ws_heartbeat(c, sent[c])
    /\ wait_since' = [wait_since EXCEPT ![c] = now]
    /\ UNCHANGED <<dashVars, FASTAPI_AVAILABLE, server_started,
                   websocket_connections, alive, replay, joined, clockVars>>
    /\ UNCHANGED <<clientVars, threadVars, userVars>>

\* One iteration in which asyncio.wait times out with nothing done.
ws_loop_timeout(c) ==
    /\ FASTAPI_AVAILABLE
    /\ pc[c] = "loop"
    /\ alive[c]
    /\ event_queue = <<>>
    /\ now - wait_since[c] >= WaitTimeout
    /\ ws_heartbeat(c, sent[c])
    /\ wait_since' = [wait_since EXCEPT ![c] = now]
    /\ UNCHANGED <<dashVars, FASTAPI_AVAILABLE, server_started,
                   websocket_connections, alive, replay, joined, clockVars>>
    /\ UNCHANGED <<clientVars, threadVars, userVars>>

\* ------------------------------------------- messages from the client
\* The texts a client sends: one that json.loads rejects, and JSON objects
\* with each supported "type" and with one that is not supported
MalformedMessage == [json |-> FALSE, type |-> "None"]
ClientMessages ==
    {MalformedMessage}
    \cup [json : {TRUE},
          type : {"get_parameters", "update_parameters", "start_benchmark",
                  "ping"}]

\* The texts the endpoint handles on all connections together
MaxClientMessages == 1

RECURSIVE HeardBy(_)
HeardBy(cs) ==
    IF cs = {} THEN 0
    ELSE LET c == CHOOSE x \in cs : TRUE
         IN  Len(client_messages[c]) + HeardBy(cs \ {c})

\* (a broadcast that reaches the connection of the requester)
BroadcastToRequester(log, message) == Sent(log, message)

\* StreamingServer._broadcast_to_all_clients: "pass"
_broadcast_to_all_clients(log, message) == log

\* StreamingServer._handle_parameter_update; StreamingDashboard has no
\* update_parameters method, so the hasattr branch is not taken
_handle_parameter_update(log, parameters) ==
    Sent(_broadcast_to_all_clients(
             log, [event_type |-> "parameters_updated", data |-> parameters]),
         [event_type |-> "parameter_update_confirmed",
          data |-> [status |-> "success", parameters |-> parameters]])

\* StreamingServer._send_current_parameters; StreamingDashboard has no
\* current_parameters attribute, so getattr gives {}
_send_current_parameters(log) ==
    Sent(log, [event_type |-> "current_parameters", data |-> "empty"])

\* StreamingServer._handle_benchmark_start
_handle_benchmark_start(log, config) ==
    Sent(log, [event_type |-> "benchmark_start_requested",
               data |-> [config |-> config, status |-> "received"]])

\* StreamingServer._handle_client_message: what the connection has been sent
\* once `message` is handled
_handle_client_message(log, message) ==
    IF ~message.json THEN log
    ELSE CASE message.type = "update_parameters" ->
                  _handle_parameter_update(log, "parameters")
           [] message.type = "get_parameters" -> _send_current_parameters(log)
           [] message.type = "start_benchmark" ->
                  _handle_benchmark_start(log, "config")
           [] OTHER -> log

\* One iteration in which client_task is done with a text from the client;
\* with_event: dashboard_task is done too, and its event is sent first.
handle_client_text(c, message, with_event) ==
    /\ FASTAPI_AVAILABLE
    /\ pc[c] = "loop"
    /\ alive[c]
    /\ with_event => event_queue # <<>>
    /\ event_queue' =
           IF with_event THEN QueueGet(event_queue).rest ELSE event_queue
    /\ client_messages' = [client_messages EXCEPT ![c] = Append(@, message)]
    /\ ws_heartbeat(c, _handle_client_message(
                           IF with_event
                           THEN Sent(sent[c],
                                     EventMessage(QueueGet(event_queue).item))
                           ELSE sent[c],
                           message))
    /\ wait_since' = [wait_since EXCEPT ![c] = now]
    /\ UNCHANGED <<_running, ctx, benchmark_status, metrics_history,
                   logs_history, status_history, scatter_history,
                   histogram_history, put_tasks, next_id, calls, bus_log,
                   FASTAPI_AVAILABLE, server_started, websocket_connections,
                   alive, replay, joined, clockVars>>
    /\ UNCHANGED <<threadVars, userVars>>

\* The iteration, for as many texts as the endpoint is given
ws_loop_message(c, message, with_event) ==
    /\ HeardBy(Clients) < MaxClientMessages
    /\ handle_client_text(c, message, with_event)

\* The texts of a client that sets the parameters or asks for them, on an
\* endpoint that is given MaxParameterMessages of them
MaxParameterMessages == 2
ParameterMessages ==
    {m \in ClientMessages : m.type \in {"update_parameters", "get_parameters"}}

ws_parameter_message(c, message) ==
    /\ HeardBy(Clients) < MaxParameterMessages
    /\ handle_client_text(c, message, FALSE)

\* websocket_handler (the pure-websockets server): websocket_connections.add
fb_accept(c) ==
    /\ ~FASTAPI_AVAILABLE /\ _running
    /\ pc[c] = "idle"
    /\ pc' = [pc EXCEPT ![c] = "status"]
    /\ alive' = [alive EXCEPT ![c] = TRUE]
    /\ websocket_connections' = websocket_connections \cup {c}
    /\ UNCHANGED <<dashVars, connected_clients, FASTAPI_AVAILABLE, server_started,
                   last_heartbeat, wait_since, sent, replay, joined, clockVars>>
    /\ UNCHANGED <<clientVars, threadVars, userVars>>

\* "Send initial status", then the loop; ConnectionClosed ends the handler
fb_send_status(c) ==
    /\ ~FASTAPI_AVAILABLE
    /\ pc[c] = "status"
    /\ IF alive[c]
       THEN /\ sent' = [sent EXCEPT ![c] = Sent(@, StatusMessage)]
            /\ pc' = [pc EXCEPT ![c] = "loop"]
            /\ wait_since' = [wait_since EXCEPT ![c] = now]
            /\ joined' = [joined EXCEPT ![c] = Len(bus_log)]
            /\ UNCHANGED websocket_connections
       ELSE /\ pc' = [pc EXCEPT ![c] = "closed"]
            /\ websocket_connections' = websocket_connections \ {c}
            /\ UNCHANGED <<sent, wait_since, joined>>
    /\ UNCHANGED <<dashVars, connected_clients, FASTAPI_AVAILABLE, server_started,
                   alive, last_heartbeat, replay, clockVars>>
    /\ UNCHANGED <<clientVars, threadVars, userVars>>

\* event = await wait_for(event_queue.get(), 1.0); websocket.send(event)
fb_loop_event(c) ==
    /\ ~FASTAPI_AVAILABLE
    /\ pc[c] = "loop"
    /\ event_queue # <<>>
    /\ event_queue' = QueueGet(event_queue).rest
    /\ IF alive[c]
       THEN /\ sent' = [sent EXCEPT ![c] = Sent(@, EventMessage(QueueGet(event_queue).item))]
            /\ wait_since' = [wait_since EXCEPT ![c] = now]
            /\ UNCHANGED <<pc, websocket_connections>>
       ELSE /\ pc' = [pc EXCEPT ![c] = "closed"]
            /\ websocket_connections' = websocket_connections \ {c}
            /\ UNCHANGED <<sent, wait_since>>
    /\ UNCHANGED <<_running, ctx, benchmark_status, metrics_history, logs_history,
                   status_history, scatter_history, histogram_history, put_tasks,
                   next_id, calls, bus_log, connected_clients, FASTAPI_AVAILABLE,
                   server_started, alive, last_heartbeat, replay, joined, clockVars>>
    /\ UNCHANGED <<clientVars, threadVars, userVars>>

\* except asyncio.TimeoutError: "Send heartbeat"
fb_loop_timeout(c) ==
    /\ ~FASTAPI_AVAILABLE
    /\ pc[c] = "loop"
    /\ event_queue = <<>>
    /\ now - wait_since[c] >= GetTimeout
    /\ IF alive[c]
       THEN /\ sent' = [sent EXCEPT ![c] = Sent(@, HeartbeatMessage)]
            /\ wait_since' = [wait_since EXCEPT ![c] = now]
            /\ UNCHANGED <<pc, websocket_connections>>
       ELSE /\ pc' = [pc EXCEPT ![c] = "closed"]
            /\ websocket_connections' = websocket_connections \ {c}
            /\ UNCHANGED <<sent, wait_since>>
    /\ UNCHANGED <<dashVars, connected_clients, FASTAPI_AVAILABLE, server_started,
                   alive, last_heartbeat, replay, joined, clockVars>>
    /\ UNCHANGED <<clientVars, threadVars, userVars>>

\* One step of connection c's handler in the FastAPI server
websocket_endpoint(c) ==
    \/ ws_accept(c)
    \/ ws_send_status(c)
    \/ ws_send_history(c)
    \/ ws_loop_event(c)
    \/ ws_loop_recv_error(c)
    \/ ws_loop_timeout(c)

\* One step of connection c's handler in the pure-websockets server
websocket_handler(c) ==
    \/ fb_accept(c)
    \/ fb_send_status(c)
    \/ fb_loop_event(c)
    \/ fb_loop_timeout(c)

\* time passes
Tick ==
    /\ ticks < MaxTicks
    /\ now' = now + TickStep
    /\ ticks' = ticks + 1
    /\ UNCHANGED <<dashVars, serverVars>>
    /\ UNCHANGED <<clientVars, threadVars, userVars>>

\* ------------------------------------------------- the users' stream parsers
\* Python's None where a number is expected: a value that no clock reading,
\* token count or status code takes (-1 is a status code)
None == -2

\* One SSE message as StreamedResponseHandler.add_chunk hands it over, seen
\* through what the parser reads of it: a comment, the [DONE] terminator,
\* text json.loads rejects, JSON that is not an object, or a JSON object with
\* its "choices" ("absent", "empty" or "one" choice), the choice's "delta",
\* the delta's "content" (<<>> for absent, null or ""), the choice's
\* "finish_reason" ("None" for absent or null), "usage" and "error" (with
\* has_code telling whether the error object has a "code" key, and code None
\* for "code": null).
NoUsage == [present |-> FALSE, prompt_tokens |-> None, completion_tokens |-> None]
NoError == [present |-> FALSE, has_code |-> FALSE, code |-> None, message |-> "None"]
JsonFrame ==
    [kind |-> "json", choices |-> "absent", delta |-> FALSE, content |-> <<>>,
     finish_reason |-> "None", usage |-> NoUsage, error |-> NoError]

\* ": keep-alive"
CommentFrame == [JsonFrame EXCEPT !.kind = "comment"]
\* "data: [DONE]"
DoneFrame == [JsonFrame EXCEPT !.kind = "done"]
\* "data: {not json"
MalformedFrame == [JsonFrame EXCEPT !.kind = "malformed"]
\* "data: 5"
NonObjectFrame == [JsonFrame EXCEPT !.kind = "nonobject"]
\* data: {"choices":[]}
EmptyChoicesFrame == [JsonFrame EXCEPT !.choices = "empty"]
\* data: {"choices":[{"delta":{"role":"assistant"},"finish_reason":null}]}
RoleOnlyFrame == [JsonFrame EXCEPT !.choices = "one", !.delta = TRUE]
\* data: {"choices":[{"delta":{"content":"H"},"finish_reason":null}]}
ContentFrame ==
    [JsonFrame EXCEPT !.choices = "one", !.delta = TRUE, !.content = <<"H">>]
\* data: {"choices":[{"delta":{"content":"i"},"finish_reason":null}]}
SecondContentFrame == [ContentFrame EXCEPT !.content = <<"i">>]
\* data: {"choices":[{"delta":{"content":null},"finish_reason":"length"}]}
FinishFrame ==
    [JsonFrame EXCEPT !.choices = "one", !.delta = TRUE,
                      !.finish_reason = "length"]
\* data: {"choices":[],"usage":{"prompt_tokens":5,"completion_tokens":2}}
UsageFrame ==
    [JsonFrame EXCEPT !.choices = "empty",
        !.usage = [present |-> TRUE, prompt_tokens |-> 5,
                   completion_tokens |-> 2]]
\* data: {"usage":{"prompt_tokens":5,"completion_tokens":2}}
UsageOnlyFrame ==
    [JsonFrame EXCEPT
        !.usage = [present |-> TRUE, prompt_tokens |-> 5,
                   completion_tokens |-> 2]]
\* data: {"error":{"code":429,"message":"rate limited"}}
ErrorFrame ==
    [JsonFrame EXCEPT
        !.error = [present |-> TRUE, has_code |-> TRUE, code |-> 429,
                   message |-> "rate limited"]]
\* data: {"error":{"message":"overloaded"}}
ErrorNoCodeFrame ==
    [JsonFrame EXCEPT
        !.error = [present |-> TRUE, has_code |-> FALSE, code |-> None,
                   message |-> "overloaded"]]
\* data: {"error":{"message":"bad request","code":null}}
ErrorNullCodeFrame ==
    [JsonFrame EXCEPT
        !.error = [present |-> TRUE, has_code |-> TRUE, code |-> None,
                   message |-> "bad request"]]

Frames ==
    {CommentFrame, DoneFrame, MalformedFrame, NonObjectFrame, EmptyChoicesFrame,
     RoleOnlyFrame, ContentFrame, SecondContentFrame, FinishFrame, UsageFrame,
     UsageOnlyFrame, ErrorFrame, ErrorNoCodeFrame, ErrorNullCodeFrame}

\* The messages one chunk of the body completes
MaxMessages == 2
\* The chunks one body is read in
MaxChunks == 2

RECURSIVE SeqsUpTo(_, _)
SeqsUpTo(S, n) ==
    IF n = 0 THEN {<<>>}
    ELSE LET shorter == SeqsUpTo(S, n - 1)
         IN  shorter \cup {Append(q, x) : q \in shorter, x \in S}

\* The byte chunks of a plain-text body, as lists of characters
PlainChunks == {<<" ">>, <<"a">>, <<" ", "a">>}

\* str.strip() leaves something
StripNonEmpty(chunk_text) == \E i \in 1..Len(chunk_text) : chunk_text[i] # " "

\* sampler.get_token_length: the caller's tokenizer, here one token for each
\* character that is not white space
get_token_length(text) == Cardinality({i \in 1..Len(text) : text[i] # " "})

NoResponse == [status_code |-> None]
ErrorResponse(status_code, error_message) ==
    [status_code |-> status_code, error_message |-> error_message]

Locals ==
    [generated_text |-> generated_text, tokens_received |-> tokens_received,
     time_at_first_token |-> time_at_first_token,
     finish_reason |-> finish_reason, num_prompt_tokens |-> num_prompt_tokens,
     outcome |-> "running", response |-> NoResponse, seen |-> frames_seen,
     usage_completion_tokens |-> usage_completion_tokens]

\* (a capture at every frame that has a choices key)
CaptureTtftAtEveryFrame(ttft, m, t) == IF m.choices # "absent" THEN t ELSE ttft

\* "if time_at_first_token is None and ("choices" in data)"
CaptureTtft(ttft, m, t) ==
    IF ttft = None /\ m.choices # "absent" THEN t ELSE ttft

\* (a decode error that ends the parse)
OnJSONDecodeErrorRaise(st, m) ==
    [st EXCEPT !.outcome = "raised", !.seen = @ \cup {m}]

\* "except json.JSONDecodeError: continue"
OnJSONDecodeError(st, m) == [st EXCEPT !.seen = @ \cup {m}]

\* (an except clause that lets the exception through)
ExceptExceptionPropagating == [parse_pc |-> "propagated", response |-> NoResponse]

\* The SSE parser's outer "except Exception as e"
ExceptException ==
    [parse_pc |-> "raised",
     response |-> ErrorResponse(500, "Error parsing streaming response")]

\* (a delta put in front of the text)
PrependContent(text, content) == content \o text

\* "generated_text += delta["content"]"
AppendContent(text, content) == text \o content

\* The body of "for message in messages" for one message that is not [DONE]
ParseMessage(st, m, t) ==
    IF m.kind = "comment" THEN [st EXCEPT !.seen = @ \cup {m}]
    ELSE IF m.kind = "malformed" THEN OnJSONDecodeError(st, m)
    ELSE IF m.kind = "nonobject"
    THEN [st EXCEPT !.outcome = "raised", !.seen = @ \cup {m}]
    ELSE
    LET s1 == [st EXCEPT
                 !.time_at_first_token = CaptureTtft(@, m, t),
                 !.seen = @ \cup {m}]
        s2 == IF m.choices = "one" /\ m.delta
              THEN [s1 EXCEPT
                      !.generated_text = AppendContent(@, m.content),
                      !.tokens_received =
                          IF m.content # <<>> THEN @ + 1 ELSE @,
                      !.finish_reason =
                          IF m.finish_reason # "None" THEN m.finish_reason
                          ELSE @]
              ELSE s1
        s3 == IF m.usage.present
              THEN [s2 EXCEPT
                      !.num_prompt_tokens =
                          IF m.usage.prompt_tokens # None
                          THEN m.usage.prompt_tokens ELSE @,
                      !.tokens_received =
                          IF m.usage.completion_tokens # None
                          THEN m.usage.completion_tokens ELSE @,
                      !.usage_completion_tokens =
                          IF m.usage.completion_tokens # None
                          THEN m.usage.completion_tokens ELSE @]
              ELSE s2
    IN  IF m.error.present
        THEN [s1 EXCEPT
                !.outcome = "returned",
                !.response =
                    ErrorResponse(IF m.error.has_code THEN m.error.code
                                  ELSE -1,
                                  m.error.message)]
        ELSE s3

\* "for message in messages": [DONE] breaks out of this loop, a return or an
\* exception leaves the function
RECURSIVE ParseMessages(_, _, _)
ParseMessages(st, messages, t) ==
    IF messages = <<>> \/ st.outcome # "running" THEN st
    ELSE IF Head(messages).kind = "done"
    THEN [st EXCEPT !.seen = @ \cup {Head(messages)}]
    ELSE ParseMessages(ParseMessage(st, Head(messages), t), Tail(messages), t)

OkResponse(text, tokens, reason, prompt_tokens, ttft, finished_at) ==
    [status_code |-> 200, generated_text |-> text, tokens_received |-> tokens,
     num_prefill_tokens |->
         IF num_prefill_tokens # None /\ num_prefill_tokens # 0
         THEN num_prefill_tokens ELSE prompt_tokens,
     finish_reason |-> reason, start_time |-> start_time,
     end_time |-> finished_at, time_at_first_token |-> ttft]

\* Python's "not x" for a clock reading that may be None
Falsy(x) == x = None \/ x = 0

\* One iteration of "async for chunk_bytes in response.content.iter_any()" of
\* the SSE parser: the chunk completes `messages`, which are all processed
\* before the next read.
sse_chunk(messages, d) ==
    /\ parse_strategy = "sse"
    /\ parse_pc = "reading"
    /\ chunks_read < MaxChunks
    /\ monotonic' = monotonic + d
    /\ chunks_read' = chunks_read + 1
    /\ received' = received \o messages
    /\ LET st == ParseMessages(Locals, messages, monotonic')
       IN  /\ generated_text' = st.generated_text
           /\ tokens_received' = st.tokens_received
           /\ time_at_first_token' = st.time_at_first_token
           /\ finish_reason' = st.finish_reason
           /\ num_prompt_tokens' = st.num_prompt_tokens
           /\ frames_seen' = st.seen
           /\ usage_completion_tokens' = st.usage_completion_tokens
           /\ parse_pc' = CASE st.outcome = "running" -> "reading"
                            [] st.outcome = "raised" -> ExceptException.parse_pc
                            [] OTHER -> st.outcome
           /\ response' =
                  IF st.outcome = "raised" THEN ExceptException.response
                  ELSE st.response
    /\ UNCHANGED <<parse_strategy, start_time, num_prefill_tokens, end_time,
                   requestVars, handlerVars, dashVars, clientVars, threadVars,
                   serverVars, clockVars>>

\* The body ends: the SSE parser's code after the loop
sse_close(d) ==
    /\ parse_strategy = "sse"
    /\ parse_pc = "reading"
    /\ monotonic' = monotonic + d
    /\ parse_pc' = "closed"
    /\ IF Falsy(time_at_first_token) /\ num_prompt_tokens = None
       THEN /\ response' =
                   ErrorResponse(500, "No valid streaming data received")
            /\ UNCHANGED end_time
       ELSE /\ end_time' = monotonic'
            /\ response' =
                   OkResponse(generated_text, tokens_received, finish_reason,
                              num_prompt_tokens, time_at_first_token,
                              monotonic')
    /\ UNCHANGED <<usage_completion_tokens, received,
                   parse_strategy, start_time, num_prefill_tokens, chunks_read,
                   generated_text, tokens_received, time_at_first_token,
                   finish_reason, num_prompt_tokens, frames_seen,
                   requestVars, handlerVars, dashVars, clientVars, threadVars,
                   serverVars, clockVars>>

\* Reading or decoding a chunk raises: the SSE parser's "except Exception"
sse_fail ==
    /\ parse_strategy = "sse"
    /\ parse_pc = "reading"
    /\ parse_pc' = ExceptException.parse_pc
    /\ response' = ExceptException.response
    /\ UNCHANGED <<usage_completion_tokens, received,
                   parse_strategy, start_time, num_prefill_tokens, monotonic,
                   chunks_read, generated_text, tokens_received,
                   time_at_first_token, finish_reason, num_prompt_tokens,
                   end_time, frames_seen, requestVars, handlerVars, dashVars, clientVars, threadVars,
                   serverVars, clockVars>>

\* One iteration of the plain-text parser's "async for"
plain_chunk(chunk_text, d) ==
    /\ parse_strategy = "plain"
    /\ parse_pc = "reading"
    /\ chunks_read < MaxChunks
    /\ monotonic' = monotonic + d
    /\ chunks_read' = chunks_read + 1
    /\ time_at_first_token' =
           IF Falsy(time_at_first_token) /\ StripNonEmpty(chunk_text)
           THEN monotonic' ELSE time_at_first_token
    /\ generated_text' = generated_text \o chunk_text
    /\ end_time' = monotonic'
    /\ UNCHANGED <<usage_completion_tokens, received,
                   parse_strategy, parse_pc, start_time, num_prefill_tokens,
                   tokens_received, finish_reason, num_prompt_tokens, response,
                   frames_seen, requestVars, handlerVars, dashVars, clientVars, threadVars,
                   serverVars, clockVars>>

\* Reading or decoding a chunk raises: the plain-text parser's "except"
plain_fail ==
    /\ parse_strategy = "plain"
    /\ parse_pc = "reading"
    /\ parse_pc' = "raised"
    /\ response' =
           ErrorResponse(500, "Failed to parse plain text streaming response")
    /\ UNCHANGED <<usage_completion_tokens, received,
                   parse_strategy, start_time, num_prefill_tokens, monotonic,
                   chunks_read, generated_text, tokens_received,
                   time_at_first_token, finish_reason, num_prompt_tokens,
                   end_time, frames_seen, requestVars, handlerVars, dashVars, clientVars, threadVars,
                   serverVars, clockVars>>

\* The body ends: the plain-text parser's code after the loop
plain_close(d) ==
    /\ parse_strategy = "plain"
    /\ parse_pc = "reading"
    /\ monotonic' = monotonic + d
    /\ parse_pc' = "closed"
    /\ end_time' = IF Falsy(end_time) THEN monotonic' ELSE end_time
    /\ tokens_received' = get_token_length(generated_text)
    /\ response' =
           [OkResponse(generated_text, tokens_received', "None", None,
                       IF Falsy(time_at_first_token) THEN start_time
                       ELSE time_at_first_token,
                       end_time')
            EXCEPT !.num_prefill_tokens = num_prefill_tokens]
    /\ UNCHANGED <<usage_completion_tokens, received,
                   parse_strategy, start_time, num_prefill_tokens, chunks_read,
                   generated_text, time_at_first_token, finish_reason,
                   num_prompt_tokens, frames_seen, requestVars, handlerVars, dashVars, clientVars, threadVars,
                   serverVars,
                   clockVars>>

\* ------------------------------------------- StreamedResponseHandler
\* The bytes of a body, by name: "da" and "ta: " are the two halves of the
\* prefix "data: ", "LF" is a newline, "x" an ASCII character of a JSON
\* object, "C3" and "A9" the two bytes of one two-byte character, "[DONE]"
\* the terminator.
parserVars ==
    <<parse_strategy, parse_pc, start_time, monotonic, chunks_read,
      num_prefill_tokens, generated_text, tokens_received, time_at_first_token,
      finish_reason, num_prompt_tokens, end_time, response, frames_seen,
      usage_completion_tokens, received>>

\* The frames a server sends: data: {x}, data: {<two-byte character>} and
\* data: [DONE], each ended by a blank line
ByteFrames ==
    {<<"da", "ta: ", "{", "x", "}", "LF", "LF">>,
     <<"da", "ta: ", "{", "C3", "A9", "}", "LF", "LF">>,
     <<"da", "ta: ", "[DONE]", "LF", "LF">>}

\* The frames of one body
MaxFrames == 2

RECURSIVE Concat(_)
Concat(seqs) == IF seqs = <<>> THEN <<>> ELSE Head(seqs) \o Concat(Tail(seqs))

\* bytes.decode("utf-8") succeeds: no lead byte without its continuation
\* byte in the same chunk, no continuation byte without its lead byte
ValidUtf8(b) ==
    \A i \in 1..Len(b) :
        /\ b[i] = "C3" => (i < Len(b) /\ b[i + 1] = "A9")
        /\ b[i] = "A9" => (i > 1 /\ b[i - 1] = "C3")

\* bytes.decode("utf-8") of a chunk that is valid: the characters
RECURSIVE DecodeUtf8(_)
DecodeUtf8(b) ==
    IF b = <<>> THEN <<>>
    ELSE IF Head(b) = "C3" THEN <<"e-acute">> \o DecodeUtf8(Tail(Tail(b)))
    ELSE <<Head(b)>> \o DecodeUtf8(Tail(b))

\* str.strip()
RECURSIVE Strip(_)
Strip(str) ==
    IF str = <<>> THEN <<>>
    ELSE IF Head(str) = "LF" THEN Strip(Tail(str))
    ELSE IF str[Len(str)] = "LF" THEN Strip(SubSeq(str, 1, Len(str) - 1))
    ELSE str

\* The index of the first "\n\n" of the buffer, 0 when there is none
FindSeparator(buf) ==
    LET at == {i \in 1..(Len(buf) - 1) : buf[i] = "LF" /\ buf[i + 1] = "LF"}
    IN  IF at = {} THEN 0 ELSE CHOOSE i \in at : \A j \in at : i <= j

\* "while "\n\n" in self.buffer": split, strip, keep what is not empty
RECURSIVE SplitMessages(_, _)
SplitMessages(buf, messages) ==
    LET i == FindSeparator(buf)
    IN  IF i = 0 THEN [buffer |-> buf, messages |-> messages]
        ELSE LET message == Strip(SubSeq(buf, 1, i - 1))
             IN  SplitMessages(SubSeq(buf, i + 2, Len(buf)),
                               IF message # <<>> THEN Append(messages, message)
                               ELSE messages)

\* json.loads succeeds on the text
ValidJson(text) ==
    /\ Len(text) >= 2
    /\ text[1] = "{"
    /\ text[Len(text)] = "}"
    /\ \A i \in 2..(Len(text) - 1) : text[i] \in {"x", "e-acute"}

\* (a tail that is emitted and kept in the buffer)
EmitTailWithoutClearing(r) ==
    IF Len(r.buffer) >= 2 /\ r.buffer[1] = "da" /\ r.buffer[2] = "ta: "
    THEN [buffer |-> r.buffer, messages |-> Append(r.messages, Strip(r.buffer))]
    ELSE r

\* The test of the tail after the loop: a tail that starts with "data: " and
\* is [DONE] or complete JSON is emitted at once and the buffer cleared
EmitCompleteTail(r) ==
    IF Len(r.buffer) >= 2 /\ r.buffer[1] = "da" /\ r.buffer[2] = "ta: "
    THEN LET message_content == Strip(SubSeq(r.buffer, 3, Len(r.buffer)))
         IN  IF message_content = <<"[DONE]">>
                \/ (message_content # <<>> /\ ValidJson(message_content))
             THEN [buffer |-> <<>>,
                   messages |-> Append(r.messages, Strip(r.buffer))]
             ELSE r
    ELSE r

\* StreamedResponseHandler.add_chunk on a chunk that decodes
add_chunk(buf, chunk_bytes) ==
    EmitCompleteTail(SplitMessages(buf \o DecodeUtf8(chunk_bytes), <<>>))

\* One read of response.content.iter_any(): the next n bytes arrive as one
\* chunk and go through add_chunk; a chunk that does not decode raises.
iter_any(n) ==
    /\ handler_pc = "open"
    /\ n \in 1..Len(wire)
    /\ wire' = SubSeq(wire, n + 1, Len(wire))
    /\ IF ValidUtf8(SubSeq(wire, 1, n))
       THEN LET r == add_chunk(buffer, SubSeq(wire, 1, n))
            IN  /\ buffer' = r.buffer
                /\ emitted' = emitted \o r.messages
                /\ UNCHANGED handler_pc
       ELSE /\ handler_pc' = "raised"
            /\ UNCHANGED <<buffer, emitted>>
    /\ UNCHANGED <<stream, parserVars, requestVars, dashVars, clientVars, threadVars, serverVars,
                   clockVars>>

\* --------------------------------------------------- send_request_async
\* The statuses a server answers with
HttpStatuses == {200, 404, 503}

\* The call: "start_time = time.monotonic()", with the caller's parse_strategy
\* and num_prefill_tokens
send_request_async(strategy, prefill) ==
    /\ parse_pc = "idle"
    /\ parse_strategy' = strategy
    /\ num_prefill_tokens' = prefill
    /\ start_time' = monotonic
    /\ parse_pc' = "sending"
    /\ UNCHANGED <<monotonic, chunks_read, generated_text, tokens_received,
                   time_at_first_token, finish_reason, num_prompt_tokens,
                   end_time, response, frames_seen, usage_completion_tokens, received,
                   requestVars, handlerVars, dashVars, clientVars, threadVars, serverVars, clockVars>>

\* (a post whose response is parsed whatever its status)
session_post_always_parsing(status) ==
    /\ parse_pc = "sending"
    /\ http_status' = status
    /\ parse_pc' = "reading"
    /\ UNCHANGED <<parse_strategy, start_time, monotonic, chunks_read,
                   num_prefill_tokens, generated_text, tokens_received,
                   time_at_first_token, finish_reason, num_prompt_tokens,
                   end_time, response, frames_seen, usage_completion_tokens, received,
                   collected, handlerVars, dashVars, clientVars, threadVars, serverVars,
                   clockVars>>

\* "async with self.session.post(...) as response": the status line arrives;
\* with 200 the parse strategy is awaited, otherwise response.text() is.
session_post(status) ==
    /\ parse_pc = "sending"
    /\ http_status' = status
    /\ parse_pc' = IF status = 200 THEN "reading" ELSE "draining"
    /\ UNCHANGED <<parse_strategy, start_time, monotonic, chunks_read,
                   num_prefill_tokens, generated_text, tokens_received,
                   time_at_first_token, finish_reason, num_prompt_tokens,
                   end_time, response, frames_seen, usage_completion_tokens, received,
                   collected, handlerVars, dashVars, clientVars, threadVars, serverVars,
                   clockVars>>

\* "error_text = await response.text()" and the UserResponse built from it
response_text ==
    /\ parse_pc = "draining"
    /\ parse_pc' = "http_error"
    /\ response' = ErrorResponse(http_status, "Error response")
    /\ UNCHANGED <<parse_strategy, start_time, monotonic, chunks_read,
                   num_prefill_tokens, generated_text, tokens_received,
                   time_at_first_token, finish_reason, num_prompt_tokens,
                   end_time, frames_seen, usage_completion_tokens, received,
                   requestVars, handlerVars, dashVars, clientVars, threadVars, serverVars, clockVars>>

\* (an except clause that lets the exception through)
RequestFailedPropagating ==
    [parse_pc |-> "request_propagated", response |-> NoResponse]

\* send_request_async's "except Exception as e"
RequestFailed ==
    [parse_pc |-> "request_failed", response |-> ErrorResponse(-1, "Request failed")]

\* session.post or response.text() raises: connection refused, TLS failure,
\* timeout, connection lost while the error body is read
request_exception ==
    /\ parse_pc \in {"sending", "draining"}
    /\ parse_pc' = RequestFailed.parse_pc
    /\ response' = RequestFailed.response
    /\ UNCHANGED <<parse_strategy, start_time, monotonic, chunks_read,
                   num_prefill_tokens, generated_text, tokens_received,
                   time_at_first_token, finish_reason, num_prompt_tokens,
                   end_time, frames_seen, usage_completion_tokens, received,
                   requestVars, handlerVars, dashVars, clientVars, threadVars, serverVars, clockVars>>

\* ------------------- HybridBasetenUser._parse_streaming_response_async
\* The Python types of what add_chunk returns (list[str]) and of the prefix
\* the hybrid parser tests each message with (b"data: ")
MessageType == "str"
PrefixType == "bytes"

\* message.startswith(prefix): str.startswith with a bytes argument (and
\* bytes.startswith with a str one) raises TypeError
startswith_raises(message_type, prefix_type) == message_type # prefix_type

\* One read of response.content.iter_any() by the hybrid parser: the chunk
\* goes through add_chunk, and the loop over the returned messages starts
\* with message_bytes.startswith(b"data: "). That call raises on the first
\* message, before any field of it is read, and "except Exception" returns
\* the 500 response; so does a chunk that does not decode. A chunk that
\* completes no message leaves the loop body unentered.
hybrid_iter_any(n) ==
    /\ parse_strategy = "hybrid"
    /\ parse_pc = "reading"
    /\ n \in 1..Len(wire)
    /\ wire' = SubSeq(wire, n + 1, Len(wire))
    /\ chunks_read' = chunks_read + 1
    /\ IF ValidUtf8(SubSeq(wire, 1, n))
       THEN LET r == add_chunk(buffer, SubSeq(wire, 1, n))
            IN  /\ buffer' = r.buffer
                /\ emitted' = emitted \o r.messages
                /\ UNCHANGED handler_pc
                /\ IF r.messages # <<>>
                      /\ startswith_raises(MessageType, PrefixType)
                   THEN /\ parse_pc' = ExceptException.parse_pc
                        /\ response' = ExceptException.response
                   ELSE UNCHANGED <<parse_pc, response>>
       ELSE /\ handler_pc' = "raised"
            /\ parse_pc' = ExceptException.parse_pc
            /\ response' = ExceptException.response
            /\ UNCHANGED <<buffer, emitted>>
    /\ UNCHANGED <<stream, parse_strategy, start_time, monotonic,
                   num_prefill_tokens, generated_text, tokens_received,
                   time_at_first_token, finish_reason, num_prompt_tokens,
                   end_time, frames_seen, usage_completion_tokens, received,
                   requestVars, dashVars, clientVars, threadVars, serverVars,
                   clockVars>>

\* The body ends and the loop is left without an exception:
\* "end_time = time.monotonic()" and the UserResponse with response.status
hybrid_close(d) ==
    /\ parse_strategy = "hybrid"
    /\ parse_pc = "reading"
    /\ wire = <<>>
    /\ monotonic' = monotonic + d
    /\ end_time' = monotonic'
    /\ parse_pc' = "closed"
    /\ response' =
           [status_code |-> http_status,
            time_at_first_token |-> time_at_first_token,
            start_time |-> start_time, end_time |-> monotonic',
            tokens_received |-> tokens_received,
            generated_text |-> generated_text,
            num_prefill_tokens |-> num_prefill_tokens,
            num_prompt_tokens |-> num_prompt_tokens]
    /\ UNCHANGED <<parse_strategy, start_time, chunks_read, num_prefill_tokens,
                   generated_text, tokens_received, time_at_first_token,
                   finish_reason, num_prompt_tokens, frames_seen,
                   usage_completion_tokens, received, requestVars, handlerVars,
                   dashVars, clientVars, threadVars, serverVars, clockVars>>

\* ------------------------------------------------------------------ chat
\* (a chat that reports successful responses only)
HandsOverOnSuccess(user_response) ==
    IF user_response.status_code = 200 THEN <<user_response>> ELSE <<>>

\* "self.collect_metrics(response, endpoint)": whatever send_request_async
\* returned goes to metrics_collector.calculate_metrics
HandsOver(user_response) == <<user_response>>

\* The states in which send_request_async has returned to chat
Returned == {"closed", "returned", "raised", "http_error", "request_failed"}

\* The last statement of chat
collect_metrics ==
    /\ parse_pc \in Returned
    /\ collected' = collected \o HandsOver(response)
    /\ parse_pc' = "collected"
    /\ UNCHANGED <<parse_strategy, start_time, monotonic, chunks_read,
                   num_prefill_tokens, generated_text, tokens_received,
                   time_at_first_token, finish_reason, num_prompt_tokens,
                   end_time, response, frames_seen, usage_completion_tokens,
                   received, http_status, handlerVars, dashVars, clientVars,
                   threadVars, serverVars, clockVars>>

\* AsyncOpenAIUser.chat when sample() returns something other than a
\* UserChatRequest: the error is logged and nothing is sent or collected
\* (AsyncBasetenUser.chat raises AttributeError instead).
chat_unsupported ==
    /\ parse_pc = "idle"
    /\ parse_pc' = "unsupported"
    /\ UNCHANGED <<parse_strategy, start_time, monotonic, chunks_read,
                   num_prefill_tokens, generated_text, tokens_received,
                   time_at_first_token, finish_reason, num_prompt_tokens,
                   end_time, response, frames_seen, usage_completion_tokens,
                   received, requestVars, handlerVars, dashVars, clientVars,
                   threadVars, serverVars, clockVars>>

\* --------------------------------------------------------- specifications
vars == <<dashVars, serverVars, clockVars, clientVars, threadVars, userVars>>

\* StreamingDashboard.__init__, with no connection yet
InitDashboard ==
    /\ _running = FALSE
    /\ benchmark_status = InitialStatus
    /\ metrics_history = <<>>
    /\ logs_history = <<>>
    /\ status_history = <<>>
    /\ scatter_history = <<>>
    /\ histogram_history = <<>>
    /\ put_tasks = <<>>
    /\ event_queue = <<>>
    /\ next_id = 1
    /\ calls = 0
    /\ bus_log = <<>>
    /\ connected_clients = {}

InitServer ==
    /\ server_started = FALSE
    /\ websocket_connections = {}
    /\ pc = [c \in Clients |-> "idle"]
    /\ alive = [c \in Clients |-> FALSE]
    /\ last_heartbeat = [c \in Clients |-> 0]
    /\ wait_since = [c \in Clients |-> 0]
    /\ sent = [c \in Clients |-> <<>>]
    /\ replay = [c \in Clients |-> EmptyHistory]
    /\ joined = [c \in Clients |-> 0]
    /\ client_messages = [c \in Clients |-> <<>>]
    /\ facade_pc = "idle"
    /\ reader_pc = "idle"
    /\ snapshot = <<>>
    /\ linked = FALSE
    /\ now = 0
    /\ ticks = 0

\* No request is being parsed
InitUserIdle ==
    /\ parse_strategy = "none"
    /\ parse_pc = "idle"
    /\ start_time = 1
    /\ monotonic = 1
    /\ num_prefill_tokens = None
    /\ chunks_read = 0
    /\ generated_text = <<>>
    /\ tokens_received = 0
    /\ time_at_first_token = None
    /\ finish_reason = "None"
    /\ num_prompt_tokens = None
    /\ end_time = None
    /\ response = NoResponse
    /\ frames_seen = {}
    /\ usage_completion_tokens = None
    /\ received = <<>>
    /\ http_status = None
    /\ collected = <<>>
    /\ wire = <<>>
    /\ stream = <<>>
    /\ buffer = <<>>
    /\ emitted = <<>>
    /\ handler_pc = "open"

Init ==
    /\ InitDashboard
    /\ InitServer
    /\ InitUserIdle
    /\ ctx \in {"task", "nowait"}
    /\ FASTAPI_AVAILABLE \in BOOLEAN

\* What the benchmark calls while clients are served
Producer ==
    \/ update_metrics_panels
    \/ update_histogram_panel

Next ==
    \/ start
    \/ Producer
    \/ RunPutTask
    \/ \E c \in Clients : websocket_endpoint(c)
    \/ \E c \in Clients : websocket_handler(c)
    \/ \E c \in Clients : client_disconnect(c)
    \/ Tick

Spec == Init /\ [][Next]_vars

\* The endpoint alone, fed from the benchmark's thread, with the fairness of
\* the event loop (a handler that can step does) and of the clock.
InitLive ==
    /\ InitDashboard
    /\ InitServer
    /\ InitUserIdle
    /\ ctx = "nowait"
    /\ FASTAPI_AVAILABLE = TRUE

NextLive ==
    \/ start
    \/ Producer
    \/ \E c \in Clients : websocket_endpoint(c)
    \/ \E c \in Clients : client_disconnect(c)
    \/ Tick

SpecLive ==
    /\ InitLive
    /\ [][NextLive]_vars
    /\ WF_vars(Tick)
    /\ \A c \in Clients : WF_vars(websocket_endpoint(c))

\* The endpoint with clients that send texts while they are served
NextMessages ==
    \/ start
    \/ update_metrics_panels
    \/ \E c \in Clients : websocket_endpoint(c)
    \/ \E c \in Clients, m \in ClientMessages, e \in BOOLEAN :
           ws_loop_message(c, m, e)
    \/ \E c \in Clients : client_disconnect(c)
    \/ Tick

SpecMessages == InitLive /\ [][NextMessages]_vars

\* The endpoint with clients that set and read the parameters
NextParameters ==
    \/ start
    \/ \E c \in Clients : ws_accept(c)
    \/ \E c \in Clients : ws_send_status(c)
    \/ \E c \in Clients : ws_send_history(c)
    \/ \E c \in Clients, m \in ParameterMessages : ws_parameter_message(c, m)
    \/ \E c \in Clients : client_disconnect(c)

SpecParameters == InitLive /\ [][NextParameters]_vars

\* ------------------------------------ the benchmark's thread and the server's
\* streaming_benchmark runs the server's event loop in a daemon thread and the
\* benchmark, which calls the facade, in the main thread. No lock is taken on
\* either side, so the interpreter can switch threads between two statements.

\* update_metrics_panels on the benchmark's thread, up to and including
\* "self.metrics_history.append(metrics_event)": the list object grows in place
metrics_append ==
    /\ facade_pc = "idle"
    /\ calls < MaxCalls
    /\ metrics_history' = Append(metrics_history, Data(next_id))
    /\ snapshot' = IF linked THEN Append(snapshot, Data(next_id)) ELSE snapshot
    /\ facade_pc' = "appended"
    /\ UNCHANGED <<_running, ctx, benchmark_status, logs_history,
                   status_history, scatter_history, histogram_history,
                   put_tasks, event_queue, next_id, calls, bus_log, serverVars,
                   clockVars, clientVars, reader_pc, linked, userVars>>

\* The rest of update_metrics_panels: "if len(self.metrics_history) > 1000:
\* self.metrics_history = self.metrics_history[-1000:]", which binds the
\* attribute to a new list, then _queue_event
metrics_trim ==
    /\ facade_pc = "appended"
    /\ metrics_history' = IF Len(metrics_history) > MetricsCap
                          THEN LastN(metrics_history, MetricsCap)
                          ELSE metrics_history
    /\ linked' = (linked /\ Len(metrics_history) <= MetricsCap)
    /\ SetBus(_queue_event(Bus, "metrics", Data(next_id)))
    /\ next_id' = next_id + 1
    /\ calls' = calls + 1
    /\ facade_pc' = "idle"
    /\ UNCHANGED <<_running, ctx, benchmark_status, logs_history,
                   status_history, scatter_history, histogram_history,
                   serverVars, clockVars, clientVars, reader_pc, snapshot,
                   userVars>>

\* GET /api/history, or the replay to a new client, on the server's thread:
\* get_complete_history returns a dict that holds the list objects themselves
get_history ==
    /\ server_started
    /\ reader_pc = "idle"
    /\ reader_pc' = "serializing"
    /\ snapshot' = get_complete_history.metrics_history
    /\ linked' = TRUE
    /\ UNCHANGED <<dashVars, serverVars, clockVars, clientVars, facade_pc,
                   userVars>>

\* The dict has been serialised and sent
get_history_sent ==
    /\ reader_pc = "serializing"
    /\ reader_pc' = "idle"
    /\ linked' = FALSE
    /\ UNCHANGED <<dashVars, serverVars, clockVars, clientVars, facade_pc,
                   snapshot, userVars>>

NextThreads ==
    \/ start
    \/ metrics_append
    \/ metrics_trim
    \/ get_history
    \/ get_history_sent

\* The facade alone, with no connection: called before start, while the
\* server runs and after stop, from each kind of caller, on history lists that
\* are empty or one entry short of their caps (the state after that many calls
\* made before start, which record without queueing).
Filled(first, n) == [i \in 1..n |-> [id |-> first + i - 1, timestamp |-> 0]]
FilledStatus(first, n) ==
    [i \in 1..n |-> [id |-> first + i - 1, timestamp |-> 0,
                     status |-> InitialStatus]]

InitFacade ==
    /\ InitServer
    /\ InitUserIdle
    /\ ctx \in {"task", "nowait", "noloop"}
    /\ FASTAPI_AVAILABLE = TRUE
    /\ _running = FALSE
    /\ benchmark_status = InitialStatus
    /\ put_tasks = <<>>
    /\ event_queue = <<>>
    /\ calls = 0
    /\ bus_log = <<>>
    /\ connected_clients = {}
    /\ \/ /\ metrics_history = <<>>
          /\ logs_history = <<>>
          /\ status_history = <<>>
          /\ scatter_history = <<>>
          /\ histogram_history = <<>>
          /\ next_id = 1
       \/ /\ metrics_history = Filled(1, MetricsCap - 1)
          /\ logs_history = Filled(MetricsCap, LogsCap - 1)
          /\ status_history = FilledStatus(MetricsCap + LogsCap - 1, StatusCap - 1)
          /\ scatter_history =
                 Filled(MetricsCap + LogsCap + StatusCap - 2, ScatterCap - 1)
          /\ histogram_history =
                 Filled(MetricsCap + LogsCap + StatusCap + ScatterCap - 3,
                        HistogramCap - 1)
          /\ next_id = MetricsCap + LogsCap + StatusCap + ScatterCap
                       + HistogramCap - 4

NextFacade ==
    \/ start
    \/ stop
    \/ Facade
    \/ RunPutTask

SpecFacade == InitFacade /\ [][NextFacade]_vars

\* The two threads on the facade's initial states
SpecThreads == InitFacade /\ [][NextThreads]_vars

\* One response body parsed by one user, by the SSE parser or by the
\* plain-text parser, for every body of at most MaxChunks chunks.
InitParse ==
    /\ InitDashboard
    /\ InitServer
    /\ ctx = "nowait"
    /\ FASTAPI_AVAILABLE = TRUE
    /\ parse_strategy \in {"sse", "plain"}
    /\ parse_pc = "reading"
    /\ start_time = 1
    /\ monotonic = 1
    /\ num_prefill_tokens \in {None, 5}
    /\ chunks_read = 0
    /\ generated_text = <<>>
    /\ tokens_received = 0
    /\ time_at_first_token = None
    /\ finish_reason = "None"
    /\ num_prompt_tokens = None
    /\ end_time = None
    /\ response = NoResponse
    /\ frames_seen = {}
    /\ usage_completion_tokens = None
    /\ received = <<>>
    /\ http_status = None
    /\ collected = <<>>
    /\ wire = <<>>
    /\ stream = <<>>
    /\ buffer = <<>>
    /\ emitted = <<>>
    /\ handler_pc = "open"

NextParse ==
    \/ \E messages \in SeqsUpTo(Frames, MaxMessages), d \in {0, 1} :
           sse_chunk(messages, d)
    \/ \E d \in {0, 1} : sse_close(d)
    \/ sse_fail
    \/ \E chunk_text \in PlainChunks, d \in {0, 1} : plain_chunk(chunk_text, d)
    \/ \E d \in {0, 1} : plain_close(d)
    \/ plain_fail

SpecParse == InitParse /\ [][NextParse]_vars

\* One well-formed body of at most MaxFrames frames, cut into chunks at
\* every possible place and fed to a fresh StreamedResponseHandler.
InitChunks ==
    /\ InitDashboard
    /\ InitServer
    /\ ctx = "nowait"
    /\ FASTAPI_AVAILABLE = TRUE
    /\ parse_strategy = "none"
    /\ parse_pc = "idle"
    /\ start_time = 1
    /\ monotonic = 1
    /\ num_prefill_tokens = None
    /\ chunks_read = 0
    /\ generated_text = <<>>
    /\ tokens_received = 0
    /\ time_at_first_token = None
    /\ finish_reason = "None"
    /\ num_prompt_tokens = None
    /\ end_time = None
    /\ response = NoResponse
    /\ frames_seen = {}
    /\ usage_completion_tokens = None
    /\ received = <<>>
    /\ http_status = None
    /\ collected = <<>>
    /\ stream \in SeqsUpTo(ByteFrames, MaxFrames) \ {<<>>}
    /\ wire = Concat(stream)
    /\ buffer = <<>>
    /\ emitted = <<>>
    /\ handler_pc = "open"

NextChunks == \E n \in 1..Len(wire) : iter_any(n)

SpecChunks == InitChunks /\ [][NextChunks]_vars

\* One body of at most MaxFrames well-formed frames, answered with status
\* 200, cut into chunks at every possible place and read by the hybrid
\* parser.
InitHybrid ==
    /\ InitDashboard
    /\ InitServer
    /\ ctx = "nowait"
    /\ FASTAPI_AVAILABLE = TRUE
    /\ parse_strategy = "hybrid"
    /\ parse_pc = "reading"
    /\ start_time = 1
    /\ monotonic = 1
    /\ num_prefill_tokens \in {None, 5}
    /\ chunks_read = 0
    /\ generated_text = <<>>
    /\ tokens_received = 0
    /\ time_at_first_token = None
    /\ finish_reason = "None"
    /\ num_prompt_tokens = None
    /\ end_time = None
    /\ response = NoResponse
    /\ frames_seen = {}
    /\ usage_completion_tokens = None
    /\ received = <<>>
    /\ http_status = 200
    /\ collected = <<>>
    /\ stream \in SeqsUpTo(ByteFrames, MaxFrames)
    /\ wire = Concat(stream)
    /\ buffer = <<>>
    /\ emitted = <<>>
    /\ handler_pc = "open"

NextHybrid ==
    \/ \E n \in 1..Len(wire) : hybrid_iter_any(n)
    \/ \E d \in {0, 1} : hybrid_close(d)

SpecHybrid == InitHybrid /\ [][NextHybrid]_vars

\* One call of send_request_async on a started user: the post, then the
\* parse strategy or the error body.
InitRequest ==
    /\ InitDashboard
    /\ InitServer
    /\ InitUserIdle
    /\ ctx = "nowait"
    /\ FASTAPI_AVAILABLE = TRUE

NextRequest ==
    \/ \E strategy \in {"sse", "plain"}, prefill \in {None, 5} :
           send_request_async(strategy, prefill)
    \/ \E status \in HttpStatuses : session_post(status)
    \/ response_text
    \/ request_exception
    \/ NextParse

SpecRequest == InitRequest /\ [][NextRequest]_vars

\* One call of chat on a started user: the request of SpecRequest, then
\* collect_metrics.
NextChat ==
    \/ NextRequest
    \/ collect_metrics
    \/ chat_unsupported

SpecChat == InitRequest /\ [][NextChat]_vars

PopulatedChoicesSeen == \E m \in frames_seen : m.choices = "one"
UsageSeen == \E m \in frames_seen : m.usage.present

\* ------------------------------------------------------------------ claims
\* C2: in SSE mode time_at_first_token is set exactly when a JSON frame with
\* a non-empty choices array has been observed.
C2_TtftIffPopulatedChoices ==
    parse_strategy = "sse" =>
        (time_at_first_token # None <=> PopulatedChoicesSeen)

\* C3: every response with status_code 200 has time_at_first_token set, with
\* start_time <= time_at_first_token <= end_time and tokens_received >= 0.
C3_OkResponseTimesOrdered ==
    response.status_code = 200 =>
        /\ response.time_at_first_token # None
        /\ response.start_time <= response.time_at_first_token
        /\ response.time_at_first_token <= response.end_time
        /\ response.tokens_received >= 0

\* C11: a frame with a non-null top-level error makes the SSE parser return
\* at once a response with status_code = error.code, or -1 when the error has
\* no code, with error_message = error.message and no time_at_first_token,
\* whatever came before.
C11_ErrorFrameReturnsItsCode ==
    parse_strategy = "sse" =>
        /\ (\E m \in frames_seen : m.error.present) <=> parse_pc = "returned"
        /\ \A m \in frames_seen :
               m.error.present =>
                   response =
                       ErrorResponse(IF m.error.has_code /\ m.error.code # None
                                     THEN m.error.code ELSE -1,
                                     m.error.message)

\* C12: once [DONE] has been observed, the frames of a later chunk change
\* none of generated_text, tokens_received, time_at_first_token and
\* finish_reason, and do not end the parse with another status.
C12_DoneTerminates ==
    [][(parse_strategy = "sse" /\ DoneFrame \in frames_seen
        /\ chunks_read' # chunks_read)
       => /\ generated_text' = generated_text
          /\ tokens_received' = tokens_received
          /\ time_at_first_token' = time_at_first_token
          /\ finish_reason' = finish_reason
          /\ parse_pc' = parse_pc]_vars

\* C13: when a frame carried usage.completion_tokens, the tokens_received of
\* the response is the completion_tokens of the last such frame.
C13_UsageIsAuthoritative ==
    (/\ parse_strategy = "sse"
     /\ response.status_code = 200
     /\ usage_completion_tokens # None)
    => response.tokens_received = usage_completion_tokens

\* C15: once time_at_first_token is set, no later frame or chunk changes it.
C15_TtftAssignedOnce ==
    [][time_at_first_token # None
       => time_at_first_token' = time_at_first_token]_vars

\* A later chunk brought frames with choices after the capture.
C15_Witness ==
    /\ parse_strategy = "sse"
    /\ chunks_read = MaxChunks
    /\ time_at_first_token # None
    /\ time_at_first_token < monotonic
    /\ {RoleOnlyFrame, ContentFrame} \subseteq frames_seen

\* What the parser has computed, without the record of the frames it saw
Computed(st) == [st EXCEPT !.seen = {}]

\* C16: a frame that is not valid JSON changes nothing of what the parser
\* computes, and the frames after it are processed as if it were not there.
C16_MalformedFrameSkipped ==
    (parse_strategy = "sse" /\ parse_pc = "reading") =>
        \A rest \in SeqsUpTo(Frames, MaxMessages - 1) :
            Computed(ParseMessages(Locals, <<MalformedFrame>> \o rest, monotonic))
                = Computed(ParseMessages(Locals, rest, monotonic))

\* A body with a malformed frame and a content frame was parsed to the end.
C16_Witness ==
    /\ parse_strategy = "sse"
    /\ parse_pc = "closed"
    /\ frames_seen = {MalformedFrame, ContentFrame}
    /\ response.status_code = 200
    /\ response.generated_text = <<"H">>

C20_SseParserTotal ==
    parse_strategy = "sse" =>
        /\ parse_pc # "propagated"
        /\ parse_pc \in {"closed", "returned", "raised"}
               => response # NoResponse
        /\ parse_pc = "raised"
               => response =
                      ErrorResponse(500, "Error parsing streaming response")

\* A JSON payload that is not an object made the parser's code raise.
C20_Witness ==
    /\ parse_strategy = "sse"
    /\ parse_pc = "raised"
    /\ NonObjectFrame \in frames_seen
    /\ response.status_code = 500

\* C18: the parse strategy runs only on a response with status 200; for any
\* other status the parser never touches the body and the result carries the
\* HTTP status and the body text.
C18_ParseOnlyOn200 ==
    /\ parse_pc \in {"reading", "closed", "returned", "raised"}
           => http_status = 200
    /\ (http_status # None /\ http_status # 200)
           => /\ chunks_read = 0
              /\ frames_seen = {}
              /\ generated_text = <<>>
              /\ parse_pc = "http_error"
                     => response = ErrorResponse(http_status, "Error response")

\* A 404 was answered with its status and body.
C18_Witness ==
    /\ http_status = 404
    /\ parse_pc = "http_error"
    /\ response.status_code = 404

WholeFrames == [i \in 1..Len(stream) |-> Strip(DecodeUtf8(stream[i]))]

\* C14: however a well-formed body is cut into chunks, once all of it has
\* arrived add_chunk has emitted each frame once and in order, the same
\* messages as when every frame arrives whole, and no chunk makes it raise.
C14_ChunkBoundariesDoNotMatter ==
    stream # <<>> =>
        /\ handler_pc = "open"
        /\ wire = <<>> => emitted = WholeFrames

\* C10: when the stream closes and no frame had a populated choices array and
\* none carried usage, the SSE parser returns 500 "No valid streaming data
\* received".
C10_NoValidDataIs500 ==
    (/\ parse_strategy = "sse"
     /\ parse_pc = "closed"
     /\ ~PopulatedChoicesSeen
     /\ ~UsageSeen)
    => response = ErrorResponse(500, "No valid streaming data received")

IsBusMessage(m) == "timestamp" \in DOMAIN m /\ m.event_type # "heartbeat"

\* The ids of the bus events connection c was sent, in the order of the sends
LiveTail(c) ==
    LET bus == SelectSeq(sent[c], LAMBDA x : IsBusMessage(x.msg))
    IN  [i \in 1..Len(bus) |-> bus[i].msg.data.id]

Ids(seq) == {seq[i] : i \in 1..Len(seq)}
EntryIds(h) == {h[i].id : i \in 1..Len(h)}
ReplayIds(c) ==
    EntryIds(replay[c].metrics_history) \cup EntryIds(replay[c].logs_history)
    \cup EntryIds(replay[c].status_history) \cup EntryIds(replay[c].scatter_history)
    \cup EntryIds(replay[c].histogram_history)
Pending == {event_queue[k].data.id : k \in 1..Len(event_queue)}
Listening(c) == pc[c] = "loop" /\ alive[c]

\* C1: with two clients listening, an event that entered the queue after both
\* began to listen and is no longer waiting in it has been sent to both.
C1_EveryClientReceives ==
    \A a, b \in Clients :
        (a # b /\ Listening(a) /\ Listening(b)) =>
            \A i \in 1..Len(bus_log) :
                (i > joined[a] /\ i > joined[b] /\ bus_log[i].data.id \notin Pending)
                    => /\ bus_log[i].data.id \in Ids(LiveTail(a))
                       /\ bus_log[i].data.id \in Ids(LiveTail(b))

\* C4: no history list is longer than its cap.
C4_HistoriesWithinCaps ==
    /\ Len(metrics_history) <= MetricsCap
    /\ Len(logs_history) <= LogsCap
    /\ Len(status_history) <= StatusCap
    /\ Len(scatter_history) <= ScatterCap
    /\ Len(histogram_history) <= HistogramCap

\* Both caps were reached and each list has dropped its oldest entry.
C4_Witness ==
    /\ Len(metrics_history) = MetricsCap
    /\ metrics_history[1].id = 2
    /\ Len(histogram_history) = HistogramCap
    /\ histogram_history[1].id > MetricsCap + LogsCap + StatusCap + ScatterCap - 3

\* C5: the first message of a connection is a status event, the second a
\* historical_data event.
C5_StatusThenHistory ==
    \A c \in Clients :
        /\ Len(sent[c]) >= 1 => sent[c][1].msg.event_type = "status"
        /\ Len(sent[c]) >= 2 => sent[c][2].msg.event_type = "historical_data"

\* C6: the replay and the live tail of a connection share no update, the live
\* tail is in production order, and once nothing is waiting every update put
\* on the bus after the snapshot is in the live tail.
C6_ReplayConsistentWithTail ==
    \A c \in Clients :
        /\ ReplayIds(c) \cap Ids(LiveTail(c)) = {}
        /\ \A i, j \in 1..Len(LiveTail(c)) : i < j => LiveTail(c)[i] < LiveTail(c)[j]
        /\ (Listening(c) /\ put_tasks = <<>>) =>
               \A i \in 1..Len(bus_log) :
                   (bus_log[i].data.id \notin ReplayIds(c)
                    /\ bus_log[i].data.id \notin Pending)
                       => bus_log[i].data.id \in Ids(LiveTail(c))

\* C7: the bus events of one connection are sent in the order in which the
\* facade queued them.
C7_DeliveredInEnqueueOrder ==
    \A c \in Clients :
        \A i, j \in 1..Len(LiveTail(c)) : i < j => LiveTail(c)[i] < LiveTail(c)[j]

C7_Witness ==
    \E c \in Clients :
        /\ Len(LiveTail(c)) >= 2
        /\ \E i \in 1..(Len(sent[c]) - 1) :
               /\ sent[c][i].msg.event_type = "metrics"
               /\ sent[c][i + 1].msg.event_type = "histogram"

\* C8: a heartbeat is sent only when nothing else was sent on the connection
\* during the 30 seconds before it.
C8_HeartbeatOnlyAfterSilence ==
    \A c \in Clients :
        \A i, j \in 1..Len(sent[c]) :
            (j < i /\ sent[c][i].msg.event_type = "heartbeat"
                   /\ sent[c][j].msg.event_type # "heartbeat")
                => sent[c][i].at - sent[c][j].at >= HeartbeatInterval

\* C9: a connection's id is in connected_clients exactly while its handler
\* runs, and the handler of a client that is gone ends (while the clock of
\* the model can still advance).
C9_ClientRemovedOnDisconnect ==
    /\ [](\A c \in Clients : (c \in connected_clients) <=> InHandler(c))
    /\ \A c \in Clients :
           (InHandler(c) /\ ~alive[c] /\ ticks < MaxTicks) ~> (pc[c] = "closed")

C9_Witness ==
    \E c \in Clients :
        /\ pc[c] = "closed"
        /\ ~alive[c]
        /\ c \notin connected_clients
        /\ Len(sent[c]) >= 2

\* ------------------------------------------------ content accumulation
\* The messages of a body up to its terminator "data: [DONE]"
RECURSIVE BeforeDone(_)
BeforeDone(messages) ==
    IF messages = <<>> \/ Head(messages).kind = "done" THEN <<>>
    ELSE <<Head(messages)>> \o BeforeDone(Tail(messages))

\* A frame whose choices[0].delta.content is a non-empty string
HasContent(m) ==
    m.kind = "json" /\ m.choices = "one" /\ m.delta /\ m.content # <<>>

\* The content strings of the messages, concatenated in arrival order
RECURSIVE ContentOf(_)
ContentOf(messages) ==
    IF messages = <<>> THEN <<>>
    ELSE (IF HasContent(Head(messages)) THEN Head(messages).content ELSE <<>>)
         \o ContentOf(Tail(messages))

ContentFrames(messages) ==
    Cardinality({i \in 1..Len(messages) : HasContent(messages[i])})

CarriesUsage(messages) ==
    \E i \in 1..Len(messages) :
        messages[i].kind = "json" /\ messages[i].usage.present

\* [DONE], when the server sends it, is the last message of the body
EndsAtDone(messages) ==
    \/ BeforeDone(messages) = messages
    \/ messages = BeforeDone(messages) \o <<DoneFrame>>

\* C21: when no frame carried usage, the tokens_received of the response is
\* the number of frames whose choices[0].delta.content is a non-empty
\* string, and generated_text is those content strings concatenated in
\* arrival order (for a body that ends at its [DONE]).
C21_TokensCountContentFrames ==
    (parse_strategy = "sse" /\ parse_pc = "closed"
     /\ response.status_code = 200 /\ ~CarriesUsage(received)
     /\ EndsAtDone(received))
    => /\ response.tokens_received = ContentFrames(received)
       /\ response.generated_text = ContentOf(received)

C21_Witness ==
    /\ parse_strategy = "sse" /\ parse_pc = "closed"
    /\ response.status_code = 200 /\ ~CarriesUsage(received)
    /\ received = <<ContentFrame, RoleOnlyFrame, SecondContentFrame, DoneFrame>>
    /\ response.tokens_received = 2
    /\ response.generated_text = <<"H", "i">>

\* ------------------------------------------------------ the event queue
\* The cap a bounded queue would have: asyncio.Queue() is created without one
QueueCap == 2

\* C22: the events waiting for a client that does not read are bounded by a
\* fixed cap, and when more have been enqueued the ones kept are the newest
\* (the oldest are dropped).
C22_QueueBoundedDropOldest ==
    /\ Len(event_queue) <= QueueCap
    /\ (connected_clients = {} /\ Len(bus_log) > QueueCap)
           => event_queue = LastN(bus_log, QueueCap)

NoEventLoop == ctx \in {"nowait", "noloop"}

\* C24: a facade call made while the dashboard is not running, or while no
\* event loop is available to the caller, returns normally and enqueues no
\* event.
C24_NoLoopNoEvent ==
    [][(calls' = calls + 1 /\ (~_running \/ NoEventLoop))
          => /\ event_queue' = event_queue
             /\ put_tasks' = put_tasks
             /\ bus_log' = bus_log]_vars

\* Every event _queue_event has accepted, in the order it accepted them:
\* those already in the queue's log, then those whose put task is pending
Enqueued == bus_log \o put_tasks

EventTypes(events) == [i \in 1..Len(events) |-> events[i].event_type]

\* _queue_event accepts events: the dashboard runs and get_event_loop()
\* does not raise
CanEnqueue == _running /\ ctx # "noloop"

\* C25: handle_single_request with an error code enqueues only a
\* request_processed event and leaves metrics_history and histogram_history
\* as they were; with error_code None it enqueues metrics, histogram and
\* request_processed, in that order.
C25_SingleRequestEvents ==
    [][/\ handle_single_request("500")
          => /\ metrics_history' = metrics_history
             /\ histogram_history' = histogram_history
             /\ CanEnqueue =>
                  EventTypes(Enqueued') =
                      EventTypes(Enqueued) \o <<"request_processed">>
       /\ (handle_single_request("None") /\ CanEnqueue)
          => EventTypes(Enqueued') =
                 EventTypes(Enqueued)
                     \o <<"metrics", "histogram", "request_processed">>]_vars

C25_Witness ==
    /\ calls = 2
    /\ Len(metrics_history) = 1
    /\ Len(histogram_history) = 1
    /\ EventTypes(Enqueued) =
           <<"metrics", "histogram", "request_processed", "request_processed">>

\* C26: for a completed iteration (run_time and total_requests positive)
\* update_iteration_rps_vs_latency enqueues exactly one rps_vs_latency event,
\* with rps = total_requests / run_time, whatever the aggregated metrics
\* contain.
C26_OneRpsPointPerIteration ==
    [][\A a \in AggregatedMetrics, r \in RunTimes, t \in TotalRequests :
          (update_iteration_rps_vs_latency(a, r, t) /\ CanEnqueue
           /\ r > 0 /\ t > 0)
          => /\ Len(Enqueued') = Len(Enqueued) + 1
             /\ SubSeq(Enqueued', 1, Len(Enqueued)) = Enqueued
             /\ Enqueued'[Len(Enqueued')].event_type = "rps_vs_latency"
             /\ Enqueued'[Len(Enqueued')].data.rps = t \div r]_vars

\* The messages that carry a timestamp: bus events and heartbeats
HasTimestamp(message) == "timestamp" \in DOMAIN message

\* C27: within one connection the timestamps of the messages a client
\* receives (bus events and heartbeats) never decrease, also when a
\* heartbeat is sent while older events are still waiting in the queue.
C27_TimestampsMonotonic ==
    \A c \in Clients :
        \A i, j \in 1..Len(sent[c]) :
            (i < j /\ HasTimestamp(sent[c][i].msg)
                   /\ HasTimestamp(sent[c][j].msg))
                => sent[c][i].msg.timestamp <= sent[c][j].msg.timestamp

\* C28: every message the server sends on a WebSocket is an object with the
\* three fields event_type, timestamp and data.
C28_MessageShape ==
    \A c \in Clients :
        \A i \in 1..Len(sent[c]) :
            DOMAIN sent[c][i].msg = {"event_type", "timestamp", "data"}

\* The messages a step added to what connection c has been sent, heartbeats
\* aside
NotHeartbeat(x) == x.msg.event_type # "heartbeat"
NewReplies(c) ==
    LET before == SelectSeq(sent[c], NotHeartbeat)
        after == SelectSeq(sent'[c], NotHeartbeat)
    IN  [i \in 1..(Len(after) - Len(before)) |->
             after[Len(before) + i].msg.event_type]

\* The replies the claim allows for a text from the client
AllowedReplies(m) ==
    IF ~m.json THEN {<<>>}
    ELSE CASE m.type = "get_parameters" -> {<<"current_parameters">>}
           [] m.type = "update_parameters" ->
                  {<<"parameter_update_confirmed">>,
                   <<"parameter_update_error">>}
           [] m.type = "start_benchmark" -> {<<"benchmark_start_requested">>}
           [] OTHER -> {<<>>}

C30_ResetEmptiesMetrics ==
    [][(reset_plot_metrics /\ CanEnqueue)
          => get_complete_history'.metrics_history = <<>>]_vars

\* C31: the reader that builds the history snapshot never observes a buffer
\* while a facade call of the benchmark is mutating it: no state has a
\* facade mutation and a snapshot read in progress at once.
C31_NoReadDuringMutation ==
    ~(facade_pc = "appended" /\ reader_pc = "serializing")

\* The tail left once the complete frames are extracted is a whole frame
\* but for its blank line: it starts with "data: " and is [DONE] or JSON
TailIsComplete(tail) ==
    /\ Len(tail) >= 2 /\ tail[1] = "da" /\ tail[2] = "ta: "
    /\ LET message_content == Strip(SubSeq(tail, 3, Len(tail)))
       IN  message_content = <<"[DONE]">> \/ ValidJson(message_content)

IsPrefixOf(s, t) == Len(s) <= Len(t) /\ s = SubSeq(t, 1, Len(s))

\* C32: when the tail left after the complete frames starts with "data: "
\* and is [DONE] or parses as JSON, add_chunk emits it in that same call and
\* clears the buffer; the newlines that arrive later add no empty and no
\* duplicate frame (what is emitted stays a prefix of the body's frames).
C32_EarlyEmit ==
    /\ [][\A n \in 1..Len(wire) :
             (iter_any(n) /\ handler_pc' = "open")
             => LET r == SplitMessages(
                             buffer \o DecodeUtf8(SubSeq(wire, 1, n)), <<>>)
                IN  TailIsComplete(r.buffer)
                    => /\ buffer' = <<>>
                       /\ emitted' =
                              emitted \o r.messages \o <<Strip(r.buffer)>>]_vars
    /\ [](handler_pc = "open"
            => /\ IsPrefixOf(emitted, WholeFrames)
               /\ \A i \in 1..Len(emitted) : emitted[i] # <<>>)

C32_Witness ==
    /\ handler_pc = "open"
    /\ Len(stream) = 2
    /\ wire = <<"LF", "LF">>
    /\ buffer = <<>>
    /\ emitted = WholeFrames

\* The step enqueued one rps_vs_latency event
EmitsRpsPoint ==
    /\ Len(Enqueued') = Len(Enqueued) + 1
    /\ Enqueued'[Len(Enqueued')].event_type = "rps_vs_latency"

\* C33: the latency of the rps_vs_latency event is ttft.mean when there is
\* one, otherwise output_latency.mean, otherwise e2e_latency.mean: a value
\* of lower preference is never reported when one of higher preference is
\* available.
C33_LatencyPreference ==
    [][\A a \in AggregatedMetrics, r \in RunTimes, t \in TotalRequests :
          (update_iteration_rps_vs_latency(a, r, t) /\ EmitsRpsPoint)
          => LET reported == Enqueued'[Len(Enqueued')].data.e2e_latency
             IN  /\ a.ttft # 0 => reported = a.ttft
                 /\ (a.ttft = 0 /\ a.output_latency # 0)
                        => reported = a.output_latency
                 /\ (a.ttft = 0 /\ a.output_latency = 0)
                        => reported = a.e2e_latency]_vars

C33_Witness ==
    /\ Len(Enqueued) = 2
    /\ Enqueued[1].event_type = "rps_vs_latency"
    /\ Enqueued[1].data.e2e_latency = 5
    /\ Enqueued[2].event_type = "rps_vs_latency"
    /\ Enqueued[2].data.e2e_latency = 3

\* C34: a chat() that sampled a chat request hands exactly one UserResponse
\* to the metrics collector whatever the outcome (200, other status, error
\* frame, parse failure, transport exception): never more than one, the one
\* send_request_async returned once chat has ended, and chat cannot end
\* without handing it over.
C34_OneResponsePerChat ==
    /\ Len(collected) <= 1
    /\ parse_pc \in Returned => (response # NoResponse /\ ENABLED collect_metrics)
    /\ parse_pc = "collected"
           => (Len(collected) = 1 /\ collected[1] = response
               /\ response # NoResponse)
    /\ (parse_pc \notin {"idle", "unsupported", "collected"})
           => ENABLED NextChat

C34_Witness ==
    /\ parse_pc = "collected"
    /\ http_status = 503
    /\ collected = <<ErrorResponse(503, "Error response")>>

\* One recording call's effect on a capped history: the new entry at the end
\* behind the entries that were there, less the oldest one exactly when the
\* list was full.
EvictsOldestFirst(h, h2, cap) ==
    /\ h2 # <<>>
    /\ h2[Len(h2)].id = next_id
    /\ \A i \in 1..Len(h) : h[i].id < next_id
    /\ h2 = IF Len(h) < cap THEN Append(h, h2[Len(h2)])
            ELSE Append(Tail(h), h2[Len(h2)])

\* C35: eviction is oldest first. After a call that records, metrics_history
\* and logs_history hold the most recent cap entries in insertion order, and
\* nothing is removed while a list is below its cap.
C35_EvictOldestFirst ==
    [][/\ (update_metrics_panels \/ metrics_history' # metrics_history)
           => EvictsOldestFirst(metrics_history, metrics_history', MetricsCap)
       /\ (add_log_message \/ logs_history' # logs_history)
           => EvictsOldestFirst(logs_history, logs_history', LogsCap)]_vars

\* The log list was one short of its cap and took two entries: the oldest
\* is gone, the newest is last, and the metrics list below its cap is whole.
C35_Witness ==
    /\ Len(logs_history) = LogsCap
    /\ logs_history[1].id = MetricsCap + 1
    /\ logs_history[LogsCap].id = next_id - 1
    /\ logs_history[LogsCap - 1].id = next_id - 2
    /\ metrics_history = Filled(1, MetricsCap - 1)

\* C36: every history entry corresponds to an enqueued event: a facade call
\* whose event is dropped (dashboard not running, no event loop) adds no
\* entry to a history buffer.
C36_HistoryOnlyWithEvent ==
    [][(\/ metrics_history' # metrics_history
        \/ logs_history' # logs_history
        \/ status_history' # status_history
        \/ scatter_history' # scatter_history
        \/ histogram_history' # histogram_history)
       => Len(Enqueued') > Len(Enqueued)]_vars

\* C37: once status_history is non-empty the current BenchmarkStatus equals
\* its most recent entry (the timestamp aside) after any sequence of facade
\* calls, and every change of a field is recorded there and broadcast as a
\* status event.
C37_StatusMatchesHistory ==
    /\ [](status_history # <<>>
            => status_history[Len(status_history)].status = benchmark_status)
    /\ [][benchmark_status' # benchmark_status
            => /\ status_history' # <<>>
               /\ status_history'[Len(status_history')].id = next_id
               /\ CanEnqueue
                    => /\ Len(Enqueued') = Len(Enqueued) + 1
                       /\ Enqueued'[Len(Enqueued')].event_type = "status"]_vars

\* C38: a handler whose client has disconnected takes no further event from
\* the queue: it leaves its loop before it dequeues another one.
C38_NoEventAfterDisconnect ==
    [][\A c \in Clients :
          (pc[c] = "loop" /\ ~alive[c]) => ~ws_loop_event(c)]_vars

\* The parameters connection c has had confirmed
ConfirmedParameters(c) ==
    {sent[c][i].msg.data.parameters :
        i \in {j \in 1..Len(sent[c]) :
                  sent[c][j].msg.event_type = "parameter_update_confirmed"}}

\* The current_parameters replies a step sent on connection c
NewCurrentParameters(c) ==
    {sent'[c][i].msg.data :
        i \in {j \in (Len(sent[c]) + 1)..Len(sent'[c]) :
                  sent'[c][j].msg.event_type = "current_parameters"}}

\* C39: parameter round trip. After update_parameters with parameters P was
\* answered with parameter_update_confirmed, a following get_parameters on
\* any connection is answered with current_parameters equal to P.
C39_ParameterRoundTrip ==
    [][\A c, d \in Clients :
          \A P \in ConfirmedParameters(c) :
              \A reply \in NewCurrentParameters(d) : reply = P]_vars

\* A well-formed body of ASCII frames: no cut can fall inside a character
AsciiBody ==
    /\ stream # <<>>
    /\ \A i \in 1..Len(stream) :
           \A j \in 1..Len(stream[i]) : stream[i][j] \notin {"C3", "A9"}

\* C40: on a well-formed SSE stream the hybrid parser returns what the
\* byte-level parser of AsyncOpenAIUser returns for the same chunks: the HTTP
\* status of the response, not the status 500 of the parse-error branch.
C40_HybridMatchesOpenAI ==
    (parse_strategy = "hybrid" /\ AsciiBody /\ response # NoResponse)
        => /\ parse_pc # ExceptException.parse_pc
           /\ response.status_code = http_status

====
